---- MODULE Spec2Model ----
(***************************************************************************)
(* Model of labs-operator.py: the kopf handlers create_lab / validate_lab  *)
(* of one Lab custom resource, the helpers they call, and the cluster      *)
(* they act on.                                                            *)
(*                                                                         *)
(* Python values are tagged records: None, str, bool, dict (a function on  *)
(* a set of keys) and list (a sequence).  A YAML text is a str whose       *)
(* payload is a sequence of bytes; every byte stands for one YAML          *)
(* document of a small library (DocOf), so that parsing, base64 encoding   *)
(* and decoding are computed and not assumed.                              *)
(***************************************************************************)
EXTENDS Integers, Sequences, FiniteSets, TLC

(***************************************************************************)
(* Bounds of the model.                                                    *)
(***************************************************************************)
\* how many times the environment (user, cluster, API server) may act
MaxEnvSteps == 2

(***************************************************************************)
(* Python values.                                                          *)
(***************************************************************************)
PyNone == [t |-> "none"]
PyStr(s) == [t |-> "str", s |-> s]
PyBool(b) == [t |-> "bool", b |-> b]
PyDict(d) == [t |-> "dict", d |-> d]
PyList(l) == [t |-> "list", l |-> l]

EmptyMap == [k \in {} |-> PyNone]
EmptyDict == PyDict(EmptyMap)
EmptyList == PyList(<<>>)

IsDict(v) == v.t = "dict"
IsList(v) == v.t = "list"

\* Python truth value of v (the `if v` / `if not v` tests of the handlers)
Truthy(v) ==
    CASE v.t = "none" -> FALSE
      [] v.t = "str" -> Len(v.s) > 0
      [] v.t = "bool" -> v.b
      [] v.t = "dict" -> DOMAIN v.d # {}
      [] v.t = "list" -> v.l # <<>>

\* dict.get(k, default) and dict.get(k)
Get(v, k, default) == IF k \in DOMAIN v.d THEN v.d[k] ELSE default
GetN(v, k) == Get(v, k, PyNone)

\* the order in which the keys of a mapping are visited
KeyOrder ==
    << "apiVersion", "api_version", "kind", "metadata", "name", "namespace",
       "type", "data", "binaryData", "binary_data", "k", "spec", "containers",
       "image", "imagePullPolicy", "image_pull_policy", "volumeMounts",
       "volume_mounts", "mountPath", "mount_path", "volumes",
       "persistentVolumeClaim", "persistent_volume_claim", "status", "phase",
       "containerStatuses", "container_statuses", "ready", "state", "running",
       "waiting", "terminated", "reason" >>

KeysOf(v) == SelectSeq(KeyOrder, LAMBDA k : k \in DOMAIN v.d)

(***************************************************************************)
(* base64, as used for the data of the side object.                        *)
(***************************************************************************)
B64Pad == 64

RECURSIVE b64encode(_)
b64encode(bs) ==
    IF Len(bs) = 0 THEN <<>>
    ELSE IF Len(bs) = 1 THEN
        << bs[1] \div 4, (bs[1] % 4) * 16, B64Pad, B64Pad >>
    ELSE IF Len(bs) = 2 THEN
        << bs[1] \div 4, (bs[1] % 4) * 16 + (bs[2] \div 16),
           (bs[2] % 16) * 4, B64Pad >>
    ELSE
        << bs[1] \div 4, (bs[1] % 4) * 16 + (bs[2] \div 16),
           (bs[2] % 16) * 4 + (bs[3] \div 64), bs[3] % 64 >>
        \o b64encode(SubSeq(bs, 4, Len(bs)))

RECURSIVE b64decode(_)
b64decode(cs) ==
    IF Len(cs) < 4 THEN <<>>
    ELSE
        LET b1 == cs[1] * 4 + (cs[2] \div 16)
            b2 == (cs[2] % 16) * 16 + (cs[3] \div 4)
            b3 == (cs[3] % 4) * 64 + cs[4]
        IN  IF cs[3] = B64Pad THEN << b1 >>
            ELSE IF cs[4] = B64Pad THEN << b1, b2 >>
            ELSE << b1, b2, b3 >> \o b64decode(SubSeq(cs, 5, Len(cs)))

(***************************************************************************)
(* The Lab and the documents its texts are made of.                        *)
(***************************************************************************)
LabName == "lab1"
LabNamespace == "default"
\* secret_name = f"lab-{name}-expected"
SideName == "lab-lab1-expected"
SideKey == "expected.yaml"

Meta(name) == PyDict([name |-> PyStr(name)])
MetaNs(name, ns) == PyDict([name |-> PyStr(name), namespace |-> PyStr(ns)])

ConfigMapDoc(meta, val) ==
    PyDict([apiVersion |-> PyStr("v1"), kind |-> PyStr("ConfigMap"),
            metadata |-> meta, data |-> PyDict([k |-> PyStr(val)])])

PodDoc(meta, image) ==
    PyDict([apiVersion |-> PyStr("v1"), kind |-> PyStr("Pod"),
            metadata |-> meta,
            spec |-> PyDict([containers |->
                PyList(<< PyDict([name |-> PyStr("c"), image |-> PyStr(image)]) >>)])])

DeploymentDoc(meta) ==
    PyDict([apiVersion |-> PyStr("apps/v1"), kind |-> PyStr("Deployment"),
            metadata |-> meta, spec |-> PyDict([replicas |-> PyStr("1")])])

\* bytes of a text: one byte per YAML document
TokNull == 0     \* an empty document
TokCm == 1       \* ConfigMap cm1, data {k: v}, no namespace written
TokCmNs == 2     \* the same, namespace written
TokCmW == 3      \* ConfigMap cm1, data {k: w}
TokPod == 4      \* Pod p1, image i1
TokPodB == 5     \* Pod p1, image i2
TokDep == 6      \* Deployment d1: a kind outside the five of get_live_resource
TokBad == 255    \* text that is not well-formed YAML

DocOf ==
    (TokCm :> ConfigMapDoc(Meta("cm1"), "v")) @@
    (TokCmNs :> ConfigMapDoc(MetaNs("cm1", LabNamespace), "v")) @@
    (TokCmW :> ConfigMapDoc(Meta("cm1"), "w")) @@
    (TokPod :> PodDoc(Meta("p1"), "i1")) @@
    (TokPodB :> PodDoc(Meta("p1"), "i2")) @@
    (TokDep :> DeploymentDoc(Meta("d1")))

\* load_manifests: the documents of a text in order, None documents dropped;
\* ok = FALSE when yaml.safe_load_all raises
load_manifests(yaml_str) ==
    LET bytes == yaml_str.s
        wellFormed == \A i \in DOMAIN bytes : bytes[i] = TokNull \/ bytes[i] \in DOMAIN DocOf
        kept == SelectSeq(bytes, LAMBDA b : b # TokNull)
    IN  [ok |-> wellFormed,
         docs |-> IF wellFormed THEN [i \in DOMAIN kept |-> DocOf[kept[i]]] ELSE <<>>]

(***************************************************************************)
(* Key naming: the API client's to_dict() (snake case, unset attributes    *)
(* present with value None) and the operator's dict_keys_to_camel.         *)
(***************************************************************************)
SnakeOf ==
    [apiVersion |-> "api_version", binaryData |-> "binary_data",
     imagePullPolicy |-> "image_pull_policy", volumeMounts |-> "volume_mounts",
     mountPath |-> "mount_path",
     persistentVolumeClaim |-> "persistent_volume_claim",
     containerStatuses |-> "container_statuses"]

CamelOf ==
    [api_version |-> "apiVersion", binary_data |-> "binaryData",
     image_pull_policy |-> "imagePullPolicy", volume_mounts |-> "volumeMounts",
     mount_path |-> "mountPath",
     persistent_volume_claim |-> "persistentVolumeClaim",
     container_statuses |-> "containerStatuses"]

\* parts[0] + ''.join(word.capitalize() for word in parts[1:]), on the key vocabulary
to_camel_case(s) == IF s \in DOMAIN CamelOf THEN CamelOf[s] ELSE s

RECURSIVE dict_keys_to_camel(_)
dict_keys_to_camel(obj) ==
    IF IsDict(obj) THEN
        PyDict([nk \in {to_camel_case(k) : k \in DOMAIN obj.d} |->
                  dict_keys_to_camel(
                      obj.d[CHOOSE k \in DOMAIN obj.d : to_camel_case(k) = nk])])
    ELSE IF IsList(obj) THEN
        PyList([i \in DOMAIN obj.l |-> dict_keys_to_camel(obj.l[i])])
    ELSE obj

AttributeName(k) == IF k \in DOMAIN SnakeOf THEN SnakeOf[k] ELSE k

\* attributes of the client's model classes that to_dict() always emits,
\* None when unset: of the object itself, and of the model found under a key
ModelAttributes(kind) ==
    IF kind = PyStr("ConfigMap") \/ kind = PyStr("Secret")
    THEN {"api_version", "kind", "metadata", "data", "binary_data"}
    ELSE {"api_version", "kind", "metadata", "spec", "status"}

NestedAttributes(key) ==
    CASE key = "metadata" -> {"name", "namespace"}
      [] key = "status" -> {"phase", "container_statuses"}
      [] key = "state" -> {"running", "terminated", "waiting"}
      [] OTHER -> {}

RECURSIVE to_dict_value(_, _)
to_dict_value(v, attrs) ==
    IF IsDict(v) THEN
        LET renamed == {AttributeName(k) : k \in DOMAIN v.d}
            source(nk) == CHOOSE x \in DOMAIN v.d : AttributeName(x) = nk
        IN  PyDict([nk \in renamed \cup attrs |->
                      IF nk \notin renamed THEN PyNone
                      ELSE IF source(nk) = "data" THEN v.d[source(nk)]
                      ELSE to_dict_value(v.d[source(nk)], NestedAttributes(source(nk)))])
    ELSE IF IsList(v) THEN
        PyList([i \in DOMAIN v.l |-> to_dict_value(v.l[i], attrs)])
    ELSE v

\* <model object>.to_dict() of an object read from the API server
to_dict(obj) == to_dict_value(obj, ModelAttributes(GetN(obj, "kind")))

(***************************************************************************)
(* State Comparator.                                                       *)
(***************************************************************************)
\* the path argument of is_subset only feeds log messages and is left out
RECURSIVE is_subset(_, _)
\* is_subset that compares sequences position by position
is_subset_Positional(expected, live) ==
    IF IsDict(expected) /\ IsDict(live) THEN
        \A k \in DOMAIN expected.d :
            k \in DOMAIN live.d /\ is_subset(expected.d[k], live.d[k])
    ELSE IF IsList(expected) /\ IsList(live) THEN
        /\ Len(expected.l) <= Len(live.l)
        /\ \A i \in DOMAIN expected.l : is_subset(expected.l[i], live.l[i])
    ELSE expected = live

is_subset(expected, live) ==
    IF IsDict(expected) /\ IsDict(live) THEN
        \A k \in DOMAIN expected.d :
            k \in DOMAIN live.d /\ is_subset(expected.d[k], live.d[k])
    ELSE IF IsList(expected) /\ IsList(live) THEN
        \A i \in DOMAIN expected.l :
            \E j \in DOMAIN live.l : is_subset(expected.l[i], live.l[j])
    ELSE expected = live

filter_metadata(meta) ==
    PyDict([name |-> GetN(meta, "name"), namespace |-> GetN(meta, "namespace")])

compare_resources(expected, live) ==
    LET kind == GetN(expected, "kind")
    IN  IF kind = PyStr("ConfigMap") \/ kind = PyStr("Secret") THEN
            /\ GetN(expected, "kind") = GetN(live, "kind")
            /\ GetN(expected, "apiVersion") = GetN(live, "apiVersion")
            /\ filter_metadata(Get(expected, "metadata", EmptyDict))
                 = filter_metadata(Get(live, "metadata", EmptyDict))
            /\ is_subset(Get(expected, "data", EmptyDict), Get(live, "data", EmptyDict))
            /\ (IF kind = PyStr("Secret")
                THEN GetN(expected, "type") = GetN(live, "type") ELSE TRUE)
        ELSE IF kind = PyStr("Pod") THEN
            LET expected_spec == Get(expected, "spec", EmptyDict)
                live_spec == Get(live, "spec", EmptyDict)
            IN  /\ GetN(expected, "kind") = GetN(live, "kind")
                /\ filter_metadata(Get(expected, "metadata", EmptyDict))
                     = filter_metadata(Get(live, "metadata", EmptyDict))
                /\ is_subset(Get(expected_spec, "containers", EmptyList),
                             Get(live_spec, "containers", EmptyList))
        ELSE
            /\ GetN(expected, "kind") = GetN(live, "kind")
            /\ GetN(expected, "apiVersion") = GetN(live, "apiVersion")
            /\ filter_metadata(Get(expected, "metadata", EmptyDict))
                 = filter_metadata(Get(live, "metadata", EmptyDict))
            /\ is_subset(Get(expected, "spec", EmptyDict), Get(live, "spec", EmptyDict))

\* a path is the sequence of its components: a key, or an index written as
\* a decimal string; path.endswith(key) looks at the last component
EndsWith(path, key) == path # <<>> /\ path[Len(path)] = key

\* the elements of seq, each once, in order of first occurrence
Distinct(seq) ==
    SelectSeq([i \in DOMAIN seq |-> [i |-> i, v |-> seq[i]]],
              LAMBDA e : \A j \in 1..(e.i - 1) : seq[j] # e.v)

RECURSIVE Flatten(_)
Flatten(seqs) == IF seqs = <<>> THEN <<>> ELSE Head(seqs) \o Flatten(Tail(seqs))

RECURSIVE find_mismatches(_, _, _)
find_mismatches(expected, live, path) ==
    IF IsDict(expected) /\ IsDict(live) THEN
        LET keys == SelectSeq(KeysOf(expected), LAMBDA k : k # "apiVersion")
            ofKey(k) ==
                LET sub_path == Append(path, k)
                    v == expected.d[k]
                IN  IF k \notin DOMAIN live.d THEN
                        << [path |-> sub_path, what |-> "missing"] >>
                    ELSE IF (IsDict(v) \/ IsList(v)) /\ live.d[k].t = v.t THEN
                        find_mismatches(v, live.d[k], sub_path)
                    ELSE IF v # live.d[k] THEN
                        << [path |-> sub_path, what |-> "value mismatch",
                            expected |-> v, live |-> live.d[k]] >>
                    ELSE <<>>
        IN  Flatten([i \in DOMAIN keys |-> ofKey(keys[i])])
    ELSE IF IsList(expected) /\ IsList(live) THEN
        IF EndsWith(path, "volumeMounts") THEN
            LET mountOf(m) == << GetN(m, "mountPath"), GetN(m, "name") >>
                expected_mounts == Distinct([i \in DOMAIN expected.l |-> mountOf(expected.l[i])])
                live_mounts == {mountOf(live.l[i]) : i \in DOMAIN live.l}
                missing == SelectSeq(expected_mounts, LAMBDA e : e.v \notin live_mounts)
            IN  [i \in DOMAIN missing |->
                    [path |-> path, what |-> "missing mount", mount |-> missing[i].v]]
        ELSE IF EndsWith(path, "volumes") THEN
            LET names == Distinct([i \in DOMAIN expected.l |-> GetN(expected.l[i], "name")])
                \* a dict comprehension keeps the last volume of each name
                lastOf(vols, n) ==
                    vols.l[CHOOSE i \in DOMAIN vols.l :
                              /\ GetN(vols.l[i], "name") = n
                              /\ \A j \in DOMAIN vols.l :
                                    GetN(vols.l[j], "name") = n => j <= i]
                live_names == {GetN(live.l[i], "name") : i \in DOMAIN live.l}
                ofName(n) ==
                    IF n \notin live_names THEN
                        << [path |-> path, what |-> "missing volume", name |-> n] >>
                    ELSE IF /\ "persistentVolumeClaim" \in DOMAIN lastOf(expected, n).d
                            /\ "persistentVolumeClaim" \notin DOMAIN lastOf(live, n).d
                    THEN << [path |-> path \o << n.s, "persistentVolumeClaim" >>,
                             what |-> "missing"] >>
                    ELSE <<>>
            IN  Flatten([i \in DOMAIN names |-> ofName(names[i].v)])
        ELSE
            Flatten([i \in DOMAIN expected.l |->
                IF i <= Len(live.l)
                THEN find_mismatches(expected.l[i], live.l[i], Append(path, ToString(i - 1)))
                ELSE << [path |-> Append(path, ToString(i - 1)), what |-> "missing"] >>])
    ELSE <<>>

(***************************************************************************)
(* Readiness Classifier.                                                   *)
(***************************************************************************)
\* what a call yields: its value, or the exception it raises
Returns(v) == [raised |-> FALSE, value |-> v]
Raises(e) == [raised |-> TRUE, error |-> e]

\* the loop over container_statuses[i..]: False at the first entry that is
\* not ready, waits with a fatal reason or has a terminated state;
\* state["waiting"].get raises AttributeError when the value is None
RECURSIVE containers_ready(_, _)
containers_ready(container_statuses, i) ==
    IF i > Len(container_statuses.l) THEN Returns(TRUE)
    ELSE
        LET cs == container_statuses.l[i]
            state == Get(cs, "state", EmptyDict)
        IN  IF ~Truthy(Get(cs, "ready", PyBool(FALSE))) THEN Returns(FALSE)
            ELSE IF "waiting" \in DOMAIN state.d /\ ~IsDict(state.d["waiting"])
            THEN Raises("AttributeError")
            ELSE IF /\ "waiting" \in DOMAIN state.d
                    /\ Get(state.d["waiting"], "reason", PyStr(""))
                         \in {PyStr("CrashLoopBackOff"), PyStr("Error")}
            THEN Returns(FALSE)
            ELSE IF "terminated" \in DOMAIN state.d THEN Returns(FALSE)
            ELSE containers_ready(container_statuses, i + 1)

is_resource_ready(kind, live) ==
    IF kind = PyStr("Pod") THEN
        LET status == Get(live, "status", EmptyDict)
            phase == GetN(status, "phase")
            container_statuses == Get(status, "containerStatuses", EmptyList)
        IN  IF phase # PyStr("Running") THEN Returns(FALSE)
            ELSE IF ~Truthy(container_statuses) THEN Returns(FALSE)
            ELSE containers_ready(container_statuses, 1)
    ELSE IF kind = PyStr("Service") THEN Returns(TRUE)
    ELSE IF kind = PyStr("ConfigMap") THEN Returns(TRUE)
    ELSE IF kind = PyStr("Secret") THEN Returns(TRUE)
    ELSE IF kind = PyStr("PersistentVolumeClaim") THEN
        Returns(GetN(Get(live, "status", EmptyDict), "phase") = PyStr("Bound"))
    ELSE Returns(TRUE)

(***************************************************************************)
(* The state: the Lab object, the cluster, and the running handler.        *)
(***************************************************************************)
VARIABLES
    labSpec,      \* spec of the Lab: given, givenFile, expected, expectedRef, expectedFile
    status,       \* status of the Lab as persisted: ready, message, error, resources
    cluster,      \* resource id -> live object as the API server holds it, or None
    terminating,  \* ids of Pods whose deletion was requested and is not finished
    secret,       \* data of the Secret lab-<name>-expected, or None when absent
    files,        \* the paths that can be opened and read
    apiDown,      \* the API server answers every call with status 500
    phase,        \* "new": the creation handler has not succeeded yet; "active";
                  \* "deleting": the Lab is marked for deletion; "deleted"
    pc,           \* "idle", or "poll": create_lab waits for a Pod to disappear
    frame,        \* locals of the waiting create_lab: given_docs, index, polls done
    inv,          \* the running or last handler invocation: handler, outcome, the spec
                  \* and status of its body, the given documents, the source and
                  \* text of the expected state, whether it reached the verdict
    events,       \* reasons of the kopf events of that invocation, in order
    ops,          \* cluster API calls of that invocation on given resources and the side object
    patch,        \* the kopf patch of that invocation: status and spec fields written
    envSteps,     \* number of environment steps taken
    fnArgs,       \* arguments of a call of a pure function, or None
    fnResult      \* what that call returned or raised, or None before the call

vars == << labSpec, status, cluster, terminating, secret, files, apiDown,
           phase, pc, frame, inv, events, ops, patch, envSteps, fnArgs, fnResult >>

ResourceId(kind, name) == << kind, name >>
IdOf(manifest) ==
    ResourceId(GetN(manifest, "kind"), GetN(Get(manifest, "metadata", EmptyDict), "name"))
ResourceIds == {IdOf(DocOf[tok]) : tok \in DOMAIN DocOf}

GivenFilePath == "given.yaml"
ExpectedFilePath == "expected.yaml"
\* content of the two files of the model
FileText(path) == IF path = GivenFilePath THEN PyStr(<< TokCm >>) ELSE PyStr(<< TokCmNs >>)

SideRef == PyDict([secretName |-> PyStr(SideName), key |-> PyStr(SideKey)])
SideRefOtherKey == PyDict([secretName |-> PyStr(SideName), key |-> PyStr("other")])

SecretData(text) == PyDict((SideKey :> PyStr(b64encode(text.s))))

NoStatus == [ready |-> PyNone, message |-> PyNone, error |-> PyNone, resources |-> PyNone]
NoPatch == [status |-> EmptyMap, spec |-> EmptyMap]
NoFrame == [given_docs |-> <<>>, index |-> 0, polls |-> 0]
NoInvocation ==
    [handler |-> "none", outcome |-> "none", spec |-> PyNone, status |-> PyNone,
     given_docs |-> <<>>, source |-> "not run", expected_yaml |-> PyNone,
     verdict |-> FALSE]

\* JSON merge patch of the fields of a mapping: None removes the field
Merge(obj, fields) == [f \in DOMAIN obj |-> IF f \in DOMAIN fields THEN fields[f] ELSE obj[f]]

IsApiException(e) == e \in {"ApiException(404)", "ApiException(409)", "ApiException(500)"}

Call(op, id, result, index) == [op |-> op, id |-> id, result |-> result, index |-> index]

(***************************************************************************)
(* Expected-State Store.                                                   *)
(***************************************************************************)
SideId == ResourceId(PyStr("Secret"), PyStr(SideName))

\* read the Secret, then replace it, or create it when the read answers 404
create_or_update_secret(name, data_dict, sec, down) ==
    LET data == PyDict([k \in DOMAIN data_dict |-> PyStr(b64encode(data_dict[k].s))])
    IN  IF down THEN
            [raised |-> TRUE, error |-> "ApiException(500)", secret |-> sec,
             ops |-> << Call("read", SideId, "500", 0) >>]
        ELSE IF sec = PyNone THEN
            [raised |-> FALSE, secret |-> data,
             ops |-> << Call("read", SideId, "404", 0), Call("create", SideId, "ok", 0) >>]
        ELSE
            [raised |-> FALSE, secret |-> data,
             ops |-> << Call("read", SideId, "ok", 0), Call("replace", SideId, "ok", 0) >>]

get_expected_yaml_from_secret(secret_name, key, sec, down) ==
    IF down THEN Raises("ApiException(500)")
    ELSE IF secret_name # PyStr(SideName) \/ sec = PyNone THEN Raises("ApiException(404)")
    ELSE
        LET encoded == GetN(sec, key.s)
        IN  IF ~Truthy(encoded) THEN Raises("ValueError")
            ELSE Returns(PyStr(b64decode(encoded.s)))

(***************************************************************************)
(* Live-State Accessor.                                                    *)
(***************************************************************************)
SupportedKinds ==
    {PyStr("Pod"), PyStr("ConfigMap"), PyStr("Secret"),
     PyStr("PersistentVolumeClaim"), PyStr("Service")}

\* read_namespaced_<kind>(name, namespace) on the cluster cl
ReadLive(kind, name, namespace, cl, down) ==
    IF down THEN Raises("ApiException(500)")
    ELSE IF \/ namespace # PyStr(LabNamespace)
            \/ ResourceId(kind, name) \notin DOMAIN cl
            \/ cl[ResourceId(kind, name)] = PyNone
    THEN Raises("ApiException(404)")
    ELSE Returns(cl[ResourceId(kind, name)])

get_live_resource(kind, api_version, name, namespace, cl, down) ==
    IF kind \in SupportedKinds THEN
        LET r == ReadLive(kind, name, namespace, cl, down)
        IN  IF r.raised THEN r ELSE Returns(dict_keys_to_camel(to_dict(r.value)))
    ELSE Raises("NotImplementedError")

(***************************************************************************)
(* Resource Applier.                                                       *)
(***************************************************************************)
\* range(30) of the wait for the old Pod to disappear
PollAttempts == 30

\* metadata = manifest.setdefault("metadata", {}); metadata.setdefault("namespace", namespace)
WithNamespace(manifest, namespace) ==
    LET metadata == Get(manifest, "metadata", EmptyDict)
        defaulted ==
            IF "namespace" \in DOMAIN metadata.d THEN metadata
            ELSE PyDict([k \in DOMAIN metadata.d \cup {"namespace"} |->
                           IF k = "namespace" THEN PyStr(namespace) ELSE metadata.d[k]])
    IN  PyDict([k \in DOMAIN manifest.d \cup {"metadata"} |->
                  IF k = "metadata" THEN defaulted ELSE manifest.d[k]])

\* the object the API server stores for a created manifest: a new Pod is Pending
ServerObject(manifest) ==
    IF GetN(manifest, "kind") = PyStr("Pod")
    THEN PyDict([k \in DOMAIN manifest.d \cup {"status"} |->
                   IF k = "status" THEN PyDict([phase |-> PyStr("Pending")])
                   ELSE manifest.d[k]])
    ELSE manifest

Exists(cl, id) == id \in DOMAIN cl /\ cl[id] # PyNone

\* create_namespaced_<kind>(ns, manifest): 409 when an object of that name exists
CreateObject(manifest, cl, down, index) ==
    LET id == IdOf(manifest)
    IN  IF down THEN
            [raised |-> TRUE, error |-> "ApiException(500)", cluster |-> cl,
             ops |-> << Call("create", id, "500", index) >>]
        ELSE IF Exists(cl, id) THEN
            [raised |-> TRUE, error |-> "ApiException(409)", cluster |-> cl,
             ops |-> << Call("create", id, "409", index) >>]
        ELSE
            [raised |-> FALSE, cluster |-> [cl EXCEPT ![id] = ServerObject(manifest)],
             ops |-> << Call("create", id, "ok", index) >>]

\* kubernetes.utils.create_from_dict: creates the object, and raises
\* FailToCreateError when the create call raises an ApiException
create_from_dict(manifest, cl, down, index) ==
    LET c == CreateObject(manifest, cl, down, index)
    IN  IF c.raised THEN [c EXCEPT !.error = "FailToCreateError"] ELSE c

Applied(state, error, cl, term, log) ==
    [state |-> state, error |-> error, cluster |-> cl, terminating |-> term, ops |-> log]

\* apply_manifest that creates the new Pod right after the delete
apply_manifest_NoWait(manifest0, namespace, cl, term, down, index) ==
    LET manifest == WithNamespace(manifest0, namespace)
        id == IdOf(manifest)
        c == IF GetN(manifest, "kind") = PyStr("Pod")
             THEN CreateObject(manifest, cl, down, index)
             ELSE create_from_dict(manifest, cl, down, index)
    IN  IF GetN(manifest, "kind") = PyStr("Pod") /\ ~down /\ Exists(cl, id)
        THEN IF compare_resources(manifest, to_dict(cl[id]))
             THEN Applied("done", "", cl, term, << Call("read", id, "ok", index) >>)
             ELSE Applied("raise", c.error, cl, term \cup {id},
                          << Call("read", id, "ok", index),
                             Call("delete", id, "ok", index) >> \o c.ops)
        ELSE IF c.raised THEN Applied("raise", c.error, cl, term, c.ops)
        ELSE Applied("done", "", c.cluster, term, c.ops)

\* apply_manifest up to its return, its exception, or the first sleep of the
\* wait for the deleted Pod (state "poll")
apply_manifest(manifest0, namespace, cl, term, down, index) ==
    LET manifest == WithNamespace(manifest0, namespace)
        kind == GetN(manifest, "kind")
        id == IdOf(manifest)
    IN  IF kind = PyStr("Pod") THEN
            IF down THEN
                Applied("raise", "ApiException(500)", cl, term,
                        << Call("read", id, "500", index) >>)
            ELSE IF ~Exists(cl, id) THEN
                LET c == CreateObject(manifest, cl, down, index)
                IN  Applied("done", "", c.cluster, term,
                            << Call("read", id, "404", index) >> \o c.ops)
            ELSE IF compare_resources(manifest, to_dict(cl[id])) THEN
                Applied("done", "", cl, term, << Call("read", id, "ok", index) >>)
            ELSE
                Applied("poll", "", cl, term \cup {id},
                        << Call("read", id, "ok", index), Call("delete", id, "ok", index) >>)
        ELSE
            LET c == create_from_dict(manifest, cl, down, index)
            IN  IF c.raised THEN Applied("raise", c.error, cl, term, c.ops)
                ELSE Applied("done", "", c.cluster, term, c.ops)

\* poll_pod that waits one iteration more
poll_pod_OneMore(manifest0, namespace, cl, term, down, index, polls) ==
    LET manifest == WithNamespace(manifest0, namespace)
        id == IdOf(manifest)
    IN  IF down THEN
            Applied("raise", "ApiException(500)", cl, term,
                    << Call("read", id, "500", index) >>)
        ELSE IF ~Exists(cl, id) THEN
            LET c == CreateObject(manifest, cl, down, index)
            IN  Applied("done", "", c.cluster, term,
                        << Call("read", id, "404", index) >> \o c.ops)
        ELSE IF polls + 1 >= PollAttempts + 1 THEN
            Applied("raise", "Pod " \o id[2].s \o " not deleted after waiting", cl, term, <<>>)
        ELSE
            Applied("poll", "", cl, term, <<>>)

\* one iteration of the wait: sleep, read the Pod; create the new Pod when the
\* read answers 404; the exception of the for-else after the last iteration.
\* A read that finds the Pod is counted in polls and not logged.
poll_pod(manifest0, namespace, cl, term, down, index, polls) ==
    LET manifest == WithNamespace(manifest0, namespace)
        id == IdOf(manifest)
    IN  IF down THEN
            Applied("raise", "ApiException(500)", cl, term,
                    << Call("read", id, "500", index) >>)
        ELSE IF ~Exists(cl, id) THEN
            LET c == CreateObject(manifest, cl, down, index)
            IN  Applied("done", "", c.cluster, term,
                        << Call("read", id, "404", index) >> \o c.ops)
        ELSE IF polls + 1 >= PollAttempts THEN
            Applied("raise", "Pod " \o id[2].s \o " not deleted after waiting", cl, term, <<>>)
        ELSE
            Applied("poll", "", cl, term, <<>>)

\* apply_given that goes on with the next manifest after an exception
RECURSIVE apply_given_ContinueOnFailure(_, _, _, _, _, _)
apply_given_ContinueOnFailure(given_docs, i, cl, term, down, log) ==
    IF i > Len(given_docs) THEN
        [state |-> "validate", index |-> i, error |-> "", cluster |-> cl,
         terminating |-> term, ops |-> log]
    ELSE
        LET a == apply_manifest(given_docs[i], LabNamespace, cl, term, down, i)
        IN  IF a.state = "poll" THEN
                [state |-> "poll", index |-> i, error |-> a.error, cluster |-> a.cluster,
                 terminating |-> a.terminating, ops |-> log \o a.ops]
            ELSE
                apply_given_ContinueOnFailure(given_docs, i + 1, a.cluster, a.terminating,
                                              down, log \o a.ops)

\* the loop of create_lab over given_docs[i..]: stops at the first exception
\* ("failed"), suspends at a Pod wait ("poll"), or falls through ("validate")
RECURSIVE apply_given(_, _, _, _, _, _)
apply_given(given_docs, i, cl, term, down, log) ==
    IF i > Len(given_docs) THEN
        [state |-> "validate", index |-> i, error |-> "", cluster |-> cl,
         terminating |-> term, ops |-> log]
    ELSE
        LET a == apply_manifest(given_docs[i], LabNamespace, cl, term, down, i)
        IN  IF a.state = "done" THEN
                apply_given(given_docs, i + 1, a.cluster, a.terminating, down, log \o a.ops)
            ELSE
                [state |-> IF a.state = "raise" THEN "failed" ELSE "poll",
                 index |-> i, error |-> a.error, cluster |-> a.cluster,
                 terminating |-> a.terminating, ops |-> log \o a.ops]

(***************************************************************************)
(* Reconciliation Orchestrator: validate_lab.                              *)
(***************************************************************************)
\* the strings that occur in sort keys, in the order of Python's str comparison
SortedStrings ==
    << "ConfigMap", "Deployment", "PersistentVolumeClaim", "Pod", "Secret", "Service",
       "cm1", "d1", "default", "p1" >>

Rank(v) == CHOOSE i \in DOMAIN SortedStrings : SortedStrings[i] = v.s

\* (kind, namespace, name) of a is less than that of b
KeyLess(a, b) ==
    \/ Rank(a.kind) < Rank(b.kind)
    \/ a.kind = b.kind /\ Rank(a.namespace) < Rank(b.namespace)
    \/ a.kind = b.kind /\ a.namespace = b.namespace /\ Rank(a.name) < Rank(b.name)

\* list.sort(key=...): stable
RECURSIVE SortEntries(_)
SortEntries(entries) ==
    IF entries = <<>> THEN <<>>
    ELSE
        LET rest == SortEntries(SubSeq(entries, 1, Len(entries) - 1))
            e == entries[Len(entries)]
            before == SelectSeq(rest, LAMBDA x : ~KeyLess(e, x))
            after == SelectSeq(rest, LAMBDA x : KeyLess(e, x))
        IN  before \o << e >> \o after

\* the readiness branch of the loop body
\* ReadinessStatus that lets a resource that is not ready count as matching
ReadinessStatus_NotReadyMatches(expected, live, res_status) ==
    LET r == is_resource_ready(GetN(expected, "kind"), live)
    IN  IF r.raised THEN
            [entry |-> [res_status EXCEPT !.status = "Error",
                            !.error = PyStr("Failed to get live resource")],
             match |-> FALSE]
        ELSE IF r.value THEN
            [entry |-> [res_status EXCEPT !.status = "Ready"], match |-> TRUE]
        ELSE
            [entry |-> [res_status EXCEPT !.status = "NotReady",
                            !.error = PyStr("is not ready")],
             match |-> TRUE]

ReadinessStatus(expected, live, res_status) ==
    LET r == is_resource_ready(GetN(expected, "kind"), live)
    IN  IF r.raised THEN
            [entry |-> [res_status EXCEPT !.status = "Error",
                            !.error = PyStr("Failed to get live resource")],
             match |-> FALSE]
        ELSE IF r.value THEN
            [entry |-> [res_status EXCEPT !.status = "Ready"], match |-> TRUE]
        ELSE
            [entry |-> [res_status EXCEPT !.status = "NotReady",
                            !.error = PyStr("is not ready")],
             match |-> FALSE]

\* Classify without the fallback to the readiness check
Classify_NoFallback(expected, live, res_status) ==
    IF compare_resources(expected, live) THEN
        ReadinessStatus(expected, live, res_status)
    ELSE
        [entry |-> [k \in DOMAIN res_status \cup {"mismatches"} |->
                      CASE k = "mismatches" -> find_mismatches(expected, live, <<>>)
                        [] k = "status" -> "NotMatching"
                        [] OTHER -> res_status[k]],
         match |-> FALSE]

\* Classify that never looks at the mismatch list
Classify_IgnoresMismatches(expected, live, res_status) ==
    ReadinessStatus(expected, live, res_status)

\* the classification of a fetched resource
Classify(expected, live, res_status) ==
    IF compare_resources(expected, live) THEN
        ReadinessStatus(expected, live, res_status)
    ELSE
        LET mismatches == find_mismatches(expected, live, <<>>)
        IN  IF mismatches = <<>> THEN ReadinessStatus(expected, live, res_status)
            ELSE [entry |-> [k \in DOMAIN res_status \cup {"mismatches"} |->
                                CASE k = "mismatches" -> mismatches
                                  [] k = "status" -> "NotMatching"
                                  [] OTHER -> res_status[k]],
                  match |-> FALSE]

\* ResourceStatus that records every failed fetch as Error
ResourceStatus_NotFoundAsError(expected, cl, down) ==
    LET metadata == Get(expected, "metadata", EmptyDict)
        res_status ==
            [kind |-> GetN(expected, "kind"), name |-> GetN(metadata, "name"),
             namespace |-> Get(metadata, "namespace", PyStr(LabNamespace)),
             status |-> "", error |-> PyNone]
        keyError ==
            \/ {"kind", "apiVersion", "metadata"} \ DOMAIN expected.d # {}
            \/ "name" \notin DOMAIN metadata.d
        live == get_live_resource(GetN(expected, "kind"), GetN(expected, "apiVersion"),
                                  GetN(metadata, "name"), res_status.namespace, cl, down)
    IN  IF keyError \/ live.raised THEN
            [entry |-> [res_status EXCEPT !.status = "Error",
                            !.error = PyStr("Failed to get live resource")],
             match |-> FALSE]
        ELSE Classify(expected, live.value, res_status)

\* the body of the loop over expected_docs: the entry of one descriptor, and
\* whether it leaves all_match untouched
ResourceStatus(expected, cl, down) ==
    LET metadata == Get(expected, "metadata", EmptyDict)
        res_status ==
            [kind |-> GetN(expected, "kind"), name |-> GetN(metadata, "name"),
             namespace |-> Get(metadata, "namespace", PyStr(LabNamespace)),
             status |-> "", error |-> PyNone]
        keyError ==
            \/ {"kind", "apiVersion", "metadata"} \ DOMAIN expected.d # {}
            \/ "name" \notin DOMAIN metadata.d
        live == get_live_resource(GetN(expected, "kind"), GetN(expected, "apiVersion"),
                                  GetN(metadata, "name"), res_status.namespace, cl, down)
    IN  IF keyError \/ (live.raised /\ live.error # "ApiException(404)") THEN
            [entry |-> [res_status EXCEPT !.status = "Error",
                            !.error = PyStr("Failed to get live resource")],
             match |-> FALSE]
        ELSE IF live.raised THEN
            [entry |-> [res_status EXCEPT !.status = "NotFound",
                            !.error = PyStr("not found in namespace")],
             match |-> FALSE]
        ELSE Classify(expected, live.value, res_status)

\* the status texts, without their leading sign and second line
FixedMessage == PyStr("The Lab is successfully fixed. Well done!")
NotFixedError == PyStr("The Lab is not fixed yet.")

\* the event of a verdict, given status.ready of the body
ReadinessEvents(all_match, last_ready) ==
    IF all_match /\ last_ready # PyBool(TRUE) THEN << "LabFixed" >>
    ELSE IF ~all_match /\ last_ready # PyBool(FALSE) THEN << "LabNotFixed" >>
    ELSE <<>>

Outcome(raised, error, statusPatch, specPatch, evs, sec, log, source, yaml, verdict) ==
    [raised |-> raised, error |-> error, patch |-> [status |-> statusPatch, spec |-> specPatch],
     events |-> evs, secret |-> sec, ops |-> log, source |-> source,
     expected_yaml |-> yaml, verdict |-> verdict]

StatusError(msg) == [ready |-> PyBool(FALSE), error |-> PyStr(msg)]

\* Evaluate whose verdict stays not ready once status.ready is False
Evaluate_StickyNotReady(expected_yaml, body_status, cl, down, specPatch, evs, sec, log, source) ==
    LET parsed == IF Truthy(expected_yaml) THEN load_manifests(expected_yaml)
                  ELSE [ok |-> TRUE, docs |-> <<>>]
        expected_docs == parsed.docs
        results == [i \in DOMAIN expected_docs |-> ResourceStatus(expected_docs[i], cl, down)]
        all_match == /\ \A i \in DOMAIN results : results[i].match
                     /\ body_status.ready # PyBool(FALSE)
        resource_statuses == PyList(SortEntries([i \in DOMAIN results |-> results[i].entry]))
        current == body_status.resources
        resourcesPatch ==
            IF current # resource_statuses THEN [resources |-> resource_statuses] ELSE EmptyMap
        verdictPatch ==
            IF all_match
            THEN [ready |-> PyBool(TRUE), message |-> FixedMessage, error |-> PyNone]
            ELSE [ready |-> PyBool(FALSE), message |-> PyNone, error |-> NotFixedError]
    IN  IF ~parsed.ok THEN
            Outcome(FALSE, "", StatusError("Failed to parse expected manifests"), specPatch,
                    evs, sec, log, source, expected_yaml, FALSE)
        ELSE
            Outcome(FALSE, "", resourcesPatch @@ verdictPatch, specPatch,
                    evs \o ReadinessEvents(all_match, body_status.ready), sec, log,
                    source, expected_yaml, TRUE)

\* Evaluate that writes status.resources on every pass
Evaluate_AlwaysPatches(expected_yaml, body_status, cl, down, specPatch, evs, sec, log, source) ==
    LET parsed == IF Truthy(expected_yaml) THEN load_manifests(expected_yaml)
                  ELSE [ok |-> TRUE, docs |-> <<>>]
        expected_docs == parsed.docs
        results == [i \in DOMAIN expected_docs |-> ResourceStatus(expected_docs[i], cl, down)]
        all_match == \A i \in DOMAIN results : results[i].match
        resource_statuses == PyList(SortEntries([i \in DOMAIN results |-> results[i].entry]))
        verdictPatch ==
            IF all_match
            THEN [ready |-> PyBool(TRUE), message |-> FixedMessage, error |-> PyNone]
            ELSE [ready |-> PyBool(FALSE), message |-> PyNone, error |-> NotFixedError]
    IN  IF ~parsed.ok THEN
            Outcome(FALSE, "", StatusError("Failed to parse expected manifests"), specPatch,
                    evs, sec, log, source, expected_yaml, FALSE)
        ELSE
            Outcome(FALSE, "", [resources |-> resource_statuses] @@ verdictPatch, specPatch,
                    evs \o ReadinessEvents(all_match, body_status.ready), sec, log,
                    source, expected_yaml, TRUE)

\* validate_lab from the parse of the resolved text to its end
Evaluate(expected_yaml, body_status, cl, down, specPatch, evs, sec, log, source) ==
    LET parsed == IF Truthy(expected_yaml) THEN load_manifests(expected_yaml)
                  ELSE [ok |-> TRUE, docs |-> <<>>]
        expected_docs == parsed.docs
        results == [i \in DOMAIN expected_docs |-> ResourceStatus(expected_docs[i], cl, down)]
        all_match == \A i \in DOMAIN results : results[i].match
        resource_statuses == PyList(SortEntries([i \in DOMAIN results |-> results[i].entry]))
        current == body_status.resources
        resourcesPatch ==
            IF current # resource_statuses THEN [resources |-> resource_statuses] ELSE EmptyMap
        verdictPatch ==
            IF all_match
            THEN [ready |-> PyBool(TRUE), message |-> FixedMessage, error |-> PyNone]
            ELSE [ready |-> PyBool(FALSE), message |-> PyNone, error |-> NotFixedError]
    IN  IF ~parsed.ok THEN
            Outcome(FALSE, "", StatusError("Failed to parse expected manifests"), specPatch,
                    evs, sec, log, source, expected_yaml, FALSE)
        ELSE
            Outcome(FALSE, "", resourcesPatch @@ verdictPatch, specPatch,
                    evs \o ReadinessEvents(all_match, body_status.ready), sec, log,
                    source, expected_yaml, TRUE)

\* ExpectedSource with the inline text taken first
ExpectedSource_InlineFirst(spec) ==
    IF Truthy(spec.expected) THEN "expected"
    ELSE IF Truthy(spec.expectedRef) THEN "expectedRef"
    ELSE IF Truthy(spec.expectedFile) THEN "expectedFile"
    ELSE "none"

\* where validate_lab takes the expected text from
ExpectedSource(spec) ==
    IF Truthy(spec.expected) /\ ~Truthy(spec.expectedRef) THEN "expected"
    ELSE IF Truthy(spec.expectedRef) THEN "expectedRef"
    ELSE IF Truthy(spec.expectedFile) THEN "expectedFile"
    ELSE "none"

\* MigrationPatch that leaves the inline text in the spec
MigrationPatch_KeepsInline(secret_name) ==
    [expectedRef |-> PyDict([secretName |-> PyStr(secret_name), key |-> PyStr(SideKey)])]

\* patch.spec of the migration
MigrationPatch(secret_name) ==
    [expected |-> PyNone,
     expectedRef |-> PyDict([secretName |-> PyStr(secret_name), key |-> PyStr(SideKey)])]

validate_lab(spec, body_status, cl, sec, fs, down) ==
    LET source == ExpectedSource(spec)
    IN  IF source = "expected" THEN
            LET w == create_or_update_secret(SideName, (SideKey :> spec.expected), sec, down)
            IN  IF w.raised THEN
                    Outcome(TRUE, w.error, EmptyMap, EmptyMap, << "Initializing" >>,
                            w.secret, w.ops, source, PyNone, FALSE)
                ELSE
                    Evaluate(spec.expected, body_status, cl, down, MigrationPatch(SideName),
                             << "Initializing", "LabReady" >>, w.secret, w.ops, source)
        ELSE IF source = "expectedRef" THEN
            LET r == get_expected_yaml_from_secret(
                         GetN(spec.expectedRef, "secretName"),
                         Get(spec.expectedRef, "key", PyStr(SideKey)), sec, down)
            IN  IF r.raised THEN
                    Outcome(TRUE, r.error, EmptyMap, EmptyMap, <<>>, sec, <<>>,
                            source, PyNone, FALSE)
                ELSE
                    Evaluate(r.value, body_status, cl, down, EmptyMap, <<>>, sec, <<>>, source)
        ELSE IF source = "expectedFile" THEN
            IF spec.expectedFile.s \notin fs THEN
                Outcome(FALSE, "", StatusError("Failed to read expectedFile"), EmptyMap,
                        <<>>, sec, <<>>, source, PyNone, FALSE)
            ELSE
                Evaluate(FileText(spec.expectedFile.s), body_status, cl, down, EmptyMap,
                         <<>>, sec, <<>>, source)
        ELSE
            Outcome(FALSE, "", StatusError("Expected manifests not defined"), EmptyMap,
                    <<>>, sec, <<>>, source, PyNone, FALSE)

(***************************************************************************)
(* Handlers.                                                               *)
(***************************************************************************)
\* create_lab up to the loop over the given manifests
read_given(spec, fs) ==
    LET fromFile == ~Truthy(spec.given) /\ Truthy(spec.givenFile)
        given_yaml == IF fromFile THEN FileText(spec.givenFile.s) ELSE spec.given
        parsed == load_manifests(given_yaml)
    IN  IF fromFile /\ spec.givenFile.s \notin fs THEN
            [ok |-> FALSE, error |-> "Failed to read givenFile", docs |-> <<>>]
        ELSE IF ~Truthy(given_yaml) THEN
            [ok |-> FALSE, error |-> "'given' or 'givenFile' field is required", docs |-> <<>>]
        ELSE IF ~parsed.ok THEN
            [ok |-> FALSE, error |-> "Failed to parse manifests", docs |-> <<>>]
        ELSE [ok |-> TRUE, error |-> "", docs |-> parsed.docs]

\* an early return of a handler that only writes ready = False and an error
ErrorReturn(msg, sec) ==
    Outcome(FALSE, "", StatusError(msg), EmptyMap, <<>>, sec, <<>>, "not run", PyNone, FALSE)

Begin(handler) ==
    [NoInvocation EXCEPT !.handler = handler, !.outcome = "running",
                         !.spec = labSpec, !.status = status]

\* the handler ends with outcome v, after the API calls of log: kopf applies
\* its patch; a creation handler that raised is invoked again
EndHandler(inv0, v, log) ==
    /\ status' = Merge(status, v.patch.status)
    /\ labSpec' = Merge(labSpec, v.patch.spec)
    /\ secret' = v.secret
    /\ patch' = v.patch
    /\ events' = v.events
    /\ ops' = log \o v.ops
    /\ inv' = [inv0 EXCEPT !.outcome = IF v.raised THEN "raised" ELSE "returned",
                           !.source = v.source, !.expected_yaml = v.expected_yaml,
                           !.verdict = v.verdict]
    /\ phase' = IF inv0.handler = "create_lab" /\ ~v.raised THEN "active" ELSE phase
    /\ pc' = "idle"
    /\ frame' = NoFrame

\* create_lab after the run a of its loop over given_docs
AfterApply(inv0, given_docs, a, log) ==
    /\ cluster' = a.cluster
    /\ terminating' = a.terminating
    /\ IF a.state = "poll" THEN
            /\ pc' = "poll"
            /\ frame' = [given_docs |-> given_docs, index |-> a.index, polls |-> 0]
            /\ inv' = inv0
            /\ events' = <<>>
            /\ ops' = log \o a.ops
            /\ patch' = NoPatch
            /\ UNCHANGED << labSpec, status, secret, phase >>
       ELSE IF a.state = "failed" THEN
            EndHandler(inv0, ErrorReturn("Failed to apply given manifest: " \o a.error, secret),
                       log \o a.ops)
       ELSE
            EndHandler(inv0, validate_lab(labSpec, status, a.cluster, secret, files, apiDown),
                       log \o a.ops)

\* @kopf.on.create: create_lab, up to its end or to its first Pod wait
CreateLab ==
    /\ pc = "idle"
    /\ phase = "new"
    /\ UNCHANGED << files, apiDown, envSteps, fnArgs, fnResult >>
    /\ LET g == read_given(labSpec, files)
       IN  IF ~g.ok THEN
                /\ UNCHANGED << cluster, terminating >>
                /\ EndHandler(Begin("create_lab"), ErrorReturn(g.error, secret), <<>>)
           ELSE
                AfterApply([Begin("create_lab") EXCEPT !.given_docs = g.docs], g.docs,
                           apply_given(g.docs, 1, cluster, terminating, apiDown, <<>>), <<>>)

\* create_lab wakes up from asyncio.sleep(1) in the wait for the deleted Pod
PollPod ==
    /\ pc = "poll"
    /\ UNCHANGED << files, apiDown, envSteps, fnArgs, fnResult >>
    /\ \E r \in {poll_pod(frame.given_docs[frame.index], LabNamespace, cluster,
                            terminating, apiDown, frame.index, frame.polls)} :
           IF r.state = "poll" THEN
                /\ frame' = [frame EXCEPT !.polls = @ + 1]
                /\ ops' = ops \o r.ops
                /\ UNCHANGED << labSpec, status, cluster, terminating, secret, phase,
                                pc, inv, events, patch >>
           ELSE IF r.state = "raise" THEN
                /\ UNCHANGED << cluster, terminating >>
                /\ EndHandler(inv, ErrorReturn("Failed to apply given manifest: " \o r.error,
                                               secret),
                              ops \o r.ops)
           ELSE
                AfterApply(inv, frame.given_docs,
                           apply_given(frame.given_docs, frame.index + 1, r.cluster,
                                       r.terminating, apiDown, <<>>),
                           ops \o r.ops)

\* a validate_lab that applies the given manifests again before it validates
ValidateLab_AppliesGiven ==
    /\ pc = "idle"
    /\ phase \in {"new", "active"}
    /\ UNCHANGED << files, apiDown, envSteps, fnArgs, fnResult >>
    /\ LET g == read_given(labSpec, files)
       IN  IF ~g.ok THEN
                /\ UNCHANGED << cluster, terminating >>
                /\ EndHandler(Begin("validate_lab"),
                              validate_lab(labSpec, status, cluster, secret, files, apiDown), <<>>)
           ELSE
                AfterApply([Begin("validate_lab") EXCEPT !.given_docs = g.docs], g.docs,
                           apply_given(g.docs, 1, cluster, terminating, apiDown, <<>>), <<>>)

\* @kopf.on.update and @kopf.timer: validate_lab
ValidateLab ==
    /\ pc = "idle"
    /\ phase \in {"new", "active"}
    /\ UNCHANGED << cluster, terminating, files, apiDown, envSteps, fnArgs, fnResult >>
    /\ \E v \in {validate_lab(labSpec, status, cluster, secret, files, apiDown)} :
          EndHandler(Begin("validate_lab"), v, <<>>)

\* the loop of delete_lab over manifests[i..]: a kind outside the five gets no
\* call; 404 is tolerated; any other ApiException is raised again.  The API
\* server answers 500 to every call when it is down, and to the delete of
\* manifests[failAt] when failAt names one
RECURSIVE delete_each(_, _, _, _, _, _, _)
delete_each(manifests, i, cl, term, down, failAt, log) ==
    IF i > Len(manifests) THEN
        [raised |-> FALSE, error |-> "", cluster |-> cl, terminating |-> term, ops |-> log]
    ELSE
        LET manifest == manifests[i]
            kind == GetN(manifest, "kind")
            metadata == Get(manifest, "metadata", EmptyDict)
            res_ns == Get(metadata, "namespace", PyStr(LabNamespace))
            id == ResourceId(kind, GetN(metadata, "name"))
        IN  IF kind \notin SupportedKinds THEN
                delete_each(manifests, i + 1, cl, term, down, failAt, log)
            ELSE IF down \/ i = failAt THEN
                [raised |-> TRUE, error |-> "ApiException(500)", cluster |-> cl,
                 terminating |-> term, ops |-> Append(log, Call("delete", id, "500", i))]
            ELSE IF res_ns # PyStr(LabNamespace) \/ ~Exists(cl, id) THEN
                delete_each(manifests, i + 1, cl, term, down, failAt,
                            Append(log, Call("delete", id, "404", i)))
            ELSE IF kind = PyStr("Pod") THEN
                delete_each(manifests, i + 1, cl, term \cup {id}, down, failAt,
                            Append(log, Call("delete", id, "ok", i)))
            ELSE
                delete_each(manifests, i + 1, [cl EXCEPT ![id] = PyNone], term, down, failAt,
                            Append(log, Call("delete", id, "ok", i)))

\* the manifests delete_lab collects: those of spec.given, then those of the
\* expected text; a text that cannot be read or parsed contributes nothing
collect_manifests(spec, sec, down) ==
    LET given == IF Truthy(spec.given) THEN load_manifests(spec.given).docs ELSE <<>>
        r == get_expected_yaml_from_secret(
                 GetN(spec.expectedRef, "secretName"),
                 Get(spec.expectedRef, "key", PyStr(SideKey)), sec, down)
        expected_yaml ==
            IF Truthy(spec.expected) /\ ~Truthy(spec.expectedRef) THEN spec.expected
            ELSE IF Truthy(spec.expectedRef) /\ ~r.raised THEN r.value
            ELSE PyNone
        expected == IF Truthy(expected_yaml) THEN load_manifests(expected_yaml).docs ELSE <<>>
    IN  given \o expected

\* a delete_lab that deletes the side object although a resource delete failed
delete_lab_SideObjectAnyway(manifests, cl, term, sec, down, failAt) ==
    LET d == delete_each(manifests, 1, cl, term, down, failAt, <<>>)
    IN  IF down \/ failAt = Len(manifests) + 1 THEN
            [raised |-> TRUE, cluster |-> d.cluster, terminating |-> d.terminating,
             secret |-> sec, ops |-> Append(d.ops, Call("delete", SideId, "500", 0))]
        ELSE
            [raised |-> d.raised, cluster |-> d.cluster, terminating |-> d.terminating,
             secret |-> PyNone,
             ops |-> Append(d.ops, Call("delete", SideId,
                                        IF sec = PyNone THEN "404" ELSE "ok", 0))]

\* delete_lab from its loop over the collected manifests to its end; failAt
\* = Len(manifests) + 1 names the delete of the side object
delete_lab(manifests, cl, term, sec, down, failAt) ==
    LET d == delete_each(manifests, 1, cl, term, down, failAt, <<>>)
    IN  IF d.raised THEN
            [raised |-> TRUE, cluster |-> d.cluster, terminating |-> d.terminating,
             secret |-> sec, ops |-> d.ops]
        ELSE IF down \/ failAt = Len(manifests) + 1 THEN
            [raised |-> TRUE, cluster |-> d.cluster, terminating |-> d.terminating,
             secret |-> sec, ops |-> Append(d.ops, Call("delete", SideId, "500", 0))]
        ELSE
            [raised |-> FALSE, cluster |-> d.cluster, terminating |-> d.terminating,
             secret |-> PyNone,
             ops |-> Append(d.ops, Call("delete", SideId,
                                        IF sec = PyNone THEN "404" ELSE "ok", 0))]

\* @kopf.on.delete: delete_lab; kopf invokes it again when it raised.  One
\* delete call of the invocation may be answered 500 by a server that is up:
\* a fault of the environment, counted with its steps
DeleteLab ==
    /\ pc = "idle"
    /\ phase # "deleted"
    /\ \E manifests \in {collect_manifests(labSpec, secret, apiDown)} :
         \E failAt \in IF envSteps < MaxEnvSteps /\ ~apiDown
                        THEN 0..(Len(manifests) + 1) ELSE {0} :
           \E d \in {delete_lab(manifests, cluster, terminating, secret, apiDown, failAt)} :
             /\ failAt # 0 => d.raised
             /\ envSteps' = IF failAt = 0 THEN envSteps ELSE envSteps + 1
             /\ cluster' = d.cluster
             /\ terminating' = d.terminating
             /\ secret' = d.secret
             /\ ops' = d.ops
             /\ phase' = IF d.raised THEN "deleting" ELSE "deleted"
             /\ inv' = [Begin("delete_lab") EXCEPT
                           !.outcome = IF d.raised THEN "raised" ELSE "returned"]
    /\ events' = <<>>
    /\ patch' = NoPatch
    /\ UNCHANGED << labSpec, status, files, apiDown, pc, frame, fnArgs, fnResult >>

(***************************************************************************)
(* The environment: the user, the kubelet, the API server.                 *)
(***************************************************************************)
Handler == << labSpec, status, phase, pc, frame, inv, events, ops, patch, fnArgs, fnResult >>

\* the user applies a document of the library to the cluster
UserApply ==
    /\ pc = "idle"
    /\ envSteps < MaxEnvSteps
    /\ phase # "deleted"
    /\ \E tok \in DOMAIN DocOf :
        LET manifest == WithNamespace(DocOf[tok], LabNamespace)
        IN  /\ IdOf(manifest) \notin terminating
            /\ cluster[IdOf(manifest)] # ServerObject(manifest)
            /\ cluster' = [cluster EXCEPT ![IdOf(manifest)] = ServerObject(manifest)]
    /\ envSteps' = envSteps + 1
    /\ UNCHANGED << terminating, secret, files, apiDown >>
    /\ UNCHANGED Handler

\* the user deletes a resource
UserDelete ==
    /\ pc = "idle"
    /\ envSteps < MaxEnvSteps
    /\ phase # "deleted"
    /\ \E id \in ResourceIds :
        /\ Exists(cluster, id)
        /\ cluster' = [cluster EXCEPT ![id] = PyNone]
        /\ terminating' = terminating \ {id}
    /\ envSteps' = envSteps + 1
    /\ UNCHANGED << secret, files, apiDown >>
    /\ UNCHANGED Handler

\* somebody deletes the side object
DeleteSecret ==
    /\ pc = "idle"
    /\ envSteps < MaxEnvSteps
    /\ phase # "deleted"
    /\ secret # PyNone
    /\ secret' = PyNone
    /\ envSteps' = envSteps + 1
    /\ UNCHANGED << cluster, terminating, files, apiDown >>
    /\ UNCHANGED Handler

\* a file of the operator's file system goes away
RemoveFile ==
    /\ pc = "idle"
    /\ envSteps < MaxEnvSteps
    /\ phase # "deleted"
    /\ \E path \in files : files' = files \ {path}
    /\ envSteps' = envSteps + 1
    /\ UNCHANGED << cluster, terminating, secret, apiDown >>
    /\ UNCHANGED Handler

\* the API server starts or stops failing
ApiOutage ==
    /\ envSteps < MaxEnvSteps
    /\ phase # "deleted"
    /\ apiDown' = ~apiDown
    /\ envSteps' = envSteps + 1
    /\ UNCHANGED << cluster, terminating, secret, files >>
    /\ UNCHANGED Handler

\* a Pod whose deletion was requested disappears
PodDeleted ==
    /\ \E id \in terminating :
        /\ cluster' = [cluster EXCEPT ![id] = PyNone]
        /\ terminating' = terminating \ {id}
    /\ UNCHANGED << secret, files, apiDown, envSteps >>
    /\ UNCHANGED Handler

RunningStatus ==
    PyDict([phase |-> PyStr("Running"),
            containerStatuses |-> PyList(<< PyDict(
                [name |-> PyStr("c"), ready |-> PyBool(TRUE),
                 state |-> PyDict([running |-> EmptyDict])]) >>)])

\* the kubelet starts the containers of a Pending Pod
PodStarted ==
    /\ phase # "deleted"
    /\ \E id \in ResourceIds :
        /\ Exists(cluster, id)
        /\ id \notin terminating
        /\ GetN(cluster[id], "kind") = PyStr("Pod")
        /\ GetN(cluster[id], "status") # RunningStatus
        /\ cluster' = [cluster EXCEPT ![id] =
                PyDict([k \in DOMAIN @.d |-> IF k = "status" THEN RunningStatus ELSE @.d[k]])]
    /\ UNCHANGED << terminating, secret, files, apiDown, envSteps >>
    /\ UNCHANGED Handler

(***************************************************************************)
(* Specification.                                                          *)
(***************************************************************************)
GivenTexts ==
    {PyNone, PyStr(<< TokCm >>), PyStr(<< TokCm, TokPod >>), PyStr(<< TokPod, TokCm >>),
     PyStr(<< TokPod, TokPodB >>), PyStr(<< TokNull, TokBad >>)}

ExpectedTexts ==
    {PyNone, PyStr(<< TokCm >>), PyStr(<< TokCmNs >>), PyStr(<< TokPod, TokCmW >>),
     PyStr(<< TokBad >>)}

LabSpec(given, givenFile, expected, expectedRef, expectedFile) ==
    [given |-> given, givenFile |-> givenFile, expected |-> expected,
     expectedRef |-> expectedRef, expectedFile |-> expectedFile]

\* the Labs of the model: every combination of the three sources of the
\* expected text with one given text, and every given text with one source
LabSpecs ==
    {LabSpec(PyStr(<< TokCm >>), PyNone, e, r, f) :
        e \in ExpectedTexts, r \in {PyNone, SideRef, SideRefOtherKey},
        f \in {PyNone, PyStr(ExpectedFilePath)}}
    \cup {LabSpec(g, PyNone, PyStr(<< TokCm >>), PyNone, PyNone) : g \in GivenTexts}
    \cup {LabSpec(PyNone, PyStr(GivenFilePath), PyStr(<< TokCm >>), PyNone, PyNone)}
    \cup {LabSpec(PyStr(<< TokCm, TokDep >>), PyNone, PyStr(<< TokDep, TokCm >>), PyNone, PyNone),
          LabSpec(PyStr(<< TokCm, TokDep >>), PyNone, PyNone, SideRef, PyNone),
          LabSpec(PyStr(<< TokCm >>), PyNone, PyStr(<< TokNull >>), PyNone, PyNone)}

Init ==
    /\ labSpec \in LabSpecs
    /\ status = NoStatus
    /\ cluster = [id \in ResourceIds |-> PyNone]
    /\ terminating = {}
    /\ secret \in {PyNone, SecretData(PyStr(<< TokCmW >>))}
    /\ (secret # PyNone => Truthy(labSpec.expectedRef))
    /\ files = {GivenFilePath, ExpectedFilePath}
    /\ apiDown = FALSE
    /\ phase = "new"
    /\ pc = "idle"
    /\ frame = NoFrame
    /\ inv = NoInvocation
    /\ events = <<>>
    /\ ops = <<>>
    /\ patch = NoPatch
    /\ envSteps = 0
    /\ fnArgs = PyNone
    /\ fnResult = PyNone

Next ==
    \/ CreateLab
    \/ PollPod
    \/ ValidateLab
    \/ DeleteLab
    \/ UserApply
    \/ UserDelete
    \/ DeleteSecret
    \/ RemoveFile
    \/ ApiOutage
    \/ PodDeleted
    \/ PodStarted

Spec == Init /\ [][Next]_vars

\* a tick of the timer would write the status: then ValidateLab is enabled
TickDue ==
    /\ pc = "idle"
    /\ phase \in {"new", "active"}
    /\ \E v \in {validate_lab(labSpec, status, cluster, secret, files, apiDown)} :
          Merge(status, v.patch.status) # status

\* Weak fairness of PollPod and of ValidateLab, written out as
\* []<>~ENABLED \/ []<><<A>>_vars with the enabling condition in closed form:
\* a waiting create_lab wakes up (PollPod is enabled exactly when pc =
\* "poll", and always changes frame), and the timer of validate_lab keeps
\* ticking (asked only of the states where a tick is due, which is less than
\* weak fairness of ValidateLab asks)
Fairness ==
    /\ ([]<>(pc # "poll")) \/ ([]<><<PollPod>>_vars)
    /\ ([]<>~TickDue) \/ ([]<><<ValidateLab>>_vars)
\* The Labs of the liveness specification: the Labs of the model with one
\* source of the expected text, whose inline texts are descriptors of the
\* five kinds, and whose given state has create_lab wait for one Pod at most
OneExpectedSource(l) ==
    Cardinality({k \in {"expected", "expectedRef", "expectedFile"} : Truthy(l[k])}) = 1

FiveKinds(text) ==
    Truthy(text) =>
        /\ load_manifests(text).ok
        /\ \A i \in DOMAIN load_manifests(text).docs :
              /\ IsDict(load_manifests(text).docs[i])
              /\ GetN(load_manifests(text).docs[i], "kind") \in SupportedKinds

PodsOf(text) ==
    IF Truthy(text)
    THEN {i \in DOMAIN load_manifests(text).docs :
            GetN(load_manifests(text).docs[i], "kind") = PyStr("Pod")}
    ELSE {}

InitLive ==
    /\ Init
    /\ OneExpectedSource(labSpec)
    /\ FiveKinds(labSpec.expected)
    /\ FiveKinds(labSpec.given)
    /\ Cardinality(PodsOf(labSpec.given)) <= 1

SpecLive == InitLive /\ [][Next]_vars /\ Fairness

(***************************************************************************)
(* The claims.                                                             *)
(***************************************************************************)
\* a step of a handler, and a step with which a handler invocation ends
\* a step of create_lab or validate_lab: among the steps of Next, those that
\* are no step of the environment (which counts its steps, but for the
\* kubelet removing or starting a Pod) and no step of delete_lab
HandlerStep ==
    /\ envSteps' = envSteps
    /\ inv'.handler \in {"create_lab", "validate_lab"}
    /\ ~PodDeleted
    /\ ~PodStarted
HandlerEnds ==
    /\ pc' = "idle"
    /\ HandlerStep

Count(seq, x) == Cardinality({i \in DOMAIN seq : seq[i] = x})

\* C1: an invocation emits LabFixed exactly once when it makes status.ready
\* true, LabNotFixed exactly once when it makes status.ready false (error
\* paths included), and no readiness event when status.ready keeps its value.
C1_ReadinessEventPerFlip ==
    [][HandlerEnds =>
        /\ Count(events', "LabFixed") =
             IF status'.ready = PyBool(TRUE) /\ status.ready # PyBool(TRUE) THEN 1 ELSE 0
        /\ Count(events', "LabNotFixed") =
             IF status'.ready = PyBool(FALSE) /\ status.ready # PyBool(FALSE) THEN 1 ELSE 0
      ]_vars

\* C2: a validation that migrates the inline expected text leaves the side
\* object holding that text and the spec with expected empty and expectedRef
\* pointing at the side object; a validation of a Lab in that shape takes the
\* expectedRef branch, emits neither Initializing nor LabReady, and changes
\* neither the side object nor the spec, so the migration happens once.
C2_MigrationOnce ==
    [][HandlerEnds =>
        /\ (inv'.source = "expected" /\ inv'.outcome = "returned") =>
              /\ Count(events', "Initializing") = 1
              /\ secret' # PyNone
              /\ PyStr(b64decode(secret'.d[SideKey].s)) = labSpec.expected
              /\ ~Truthy(labSpec'.expected)
              /\ labSpec'.expectedRef =
                    PyDict([secretName |-> PyStr(SideName), key |-> PyStr(SideKey)])
        /\ (~Truthy(labSpec.expected) /\ Truthy(labSpec.expectedRef)) =>
              /\ inv'.source \in {"expectedRef", "not run"}
              /\ Count(events', "Initializing") = 0
              /\ Count(events', "LabReady") = 0
              /\ secret' = secret
              /\ labSpec' = labSpec
      ]_vars

\* a validation of a migrated Lab: the text it read back from the side object
\* is an inline text (the side object of an initial state holds another text)
C2_Witness ==
    /\ inv.handler = "validate_lab"
    /\ inv.source = "expectedRef"
    /\ inv.verdict
    /\ inv.expected_yaml = PyStr(<< TokCm >>)
    /\ ~Truthy(labSpec.expected)
    /\ secret = SecretData(PyStr(<< TokCm >>))

\* C3 as stated: the source validate_lab uses is the first set one in the
\* order expected, expectedRef, expectedFile, and with expected set the
\* inline text is the one evaluated.
C3_InlineFirst ==
    inv.source # "not run" =>
        /\ inv.source =
             IF Truthy(inv.spec.expected) THEN "expected"
             ELSE IF Truthy(inv.spec.expectedRef) THEN "expectedRef"
             ELSE IF Truthy(inv.spec.expectedFile) THEN "expectedFile"
             ELSE "none"
        /\ (Truthy(inv.spec.expected) /\ inv.verdict) =>
              inv.expected_yaml = inv.spec.expected

\* C3 as amended: the source validate_lab uses is the first set one in the
\* order expectedRef, expected, expectedFile, and the text it evaluates is
\* the text of that source: with expected and expectedRef both set, the
\* decoded text of the side object.
C3_RefFirst ==
    [][(HandlerEnds /\ inv'.source # "not run") =>
        /\ inv'.source =
             IF Truthy(labSpec.expectedRef) THEN "expectedRef"
             ELSE IF Truthy(labSpec.expected) THEN "expected"
             ELSE IF Truthy(labSpec.expectedFile) THEN "expectedFile"
             ELSE "none"
        /\ inv'.expected_yaml # PyNone =>
              inv'.expected_yaml =
                 IF Truthy(labSpec.expectedRef)
                 THEN PyStr(b64decode(
                          secret.d[Get(labSpec.expectedRef, "key", PyStr(SideKey)).s].s))
                 ELSE IF Truthy(labSpec.expected) THEN labSpec.expected
                 ELSE FileText(labSpec.expectedFile.s)
      ]_vars

\* a verdict on the text of the side object for a Lab with expected and
\* expectedRef both set
C3_Witness ==
    /\ inv.source = "expectedRef"
    /\ inv.verdict
    /\ Truthy(inv.spec.expected)
    /\ Truthy(inv.spec.expectedRef)
    /\ inv.expected_yaml # inv.spec.expected

\* C4: no exception escapes a handler on the validation path: when the
\* expected text cannot be resolved from expectedRef, or the side object
\* cannot be persisted, the handler returns with status.ready = false and
\* status.error set.
C4_NoEscape ==
    (inv.outcome \in {"returned", "raised"} /\ inv.source \in {"expected", "expectedRef"}
        /\ inv.expected_yaml = PyNone) =>
        /\ inv.outcome = "returned"
        /\ status.ready = PyBool(FALSE)
        /\ Truthy(status.error)

\* C5: applying a given descriptor of a kind other than Pod never fails
\* because an object of that name exists: the create call of the apply is
\* never answered 409.
C5_ApplyRepeatable ==
    \A i \in DOMAIN ops :
        (ops[i].index > 0 /\ ops[i].op = "create" /\ ops[i].id[1] # PyStr("Pod")) =>
            ops[i].result # "409"

\* the API calls of the apply of the j-th given descriptor, and their shape
Segment(log, j) == SelectSeq(log, LAMBDA c : c.index = j)
Shape(seg) == [i \in DOMAIN seg |-> << seg[i].op, seg[i].result >>]
GivenManifest(docs, j) == WithNamespace(docs[j], LabNamespace)
IsPod(manifest) == GetN(manifest, "kind") = PyStr("Pod")
\* the apply of the j-th descriptor started in this step
StartedNow(j) == CreateLab \/ (PollPod /\ j > frame.index)

\* C6: the calls apply_manifest issues for a Pod are one of: a read that
\* finds a matching Pod and nothing else; a read that finds no Pod and one
\* create; a read that finds a differing Pod, the delete, and then a create
\* only right after a read that found the Pod absent (and with the old Pod
\* really gone); a failed read ends the apply.
C6_PodReplaceOrder ==
    [][HandlerStep =>
        \A j \in DOMAIN inv'.given_docs :
            LET manifest == GivenManifest(inv'.given_docs, j)
                id == IdOf(manifest)
            IN  IsPod(manifest) => \E seg \in {Segment(ops', j)} :
                  /\ \A i \in DOMAIN seg : seg[i].id = id
                  /\ Shape(seg) \in
                        { <<>>,
                          << <<"read", "500">> >>,
                          << <<"read", "ok">> >>,
                          << <<"read", "404">>, <<"create", "ok">> >>,
                          << <<"read", "ok">>, <<"delete", "ok">> >>,
                          << <<"read", "ok">>, <<"delete", "ok">>, <<"read", "500">> >>,
                          << <<"read", "ok">>, <<"delete", "ok">>,
                             <<"read", "404">>, <<"create", "ok">> >> }
                  /\ (Shape(seg) = << <<"read", "ok">> >> /\ StartedNow(j)) =>
                        /\ Exists(cluster', id)
                        /\ compare_resources(manifest, to_dict(cluster'[id]))
                  /\ (Len(seg) >= 2 /\ seg[2].op = "delete" /\ StartedNow(j)) =>
                        /\ Exists(cluster', id)
                        /\ ~compare_resources(manifest, to_dict(cluster'[id]))
                        /\ pc' = "poll"
                  /\ (PollPod /\ j = frame.index /\ Len(seg) = 4) =>
                        /\ ~Exists(cluster, id)
                        /\ cluster'[id] = ServerObject(manifest)
      ]_vars

\* a Pod was replaced: read, delete, a read that found it absent, create
C6_Witness ==
    /\ inv.handler = "create_lab"
    /\ inv.outcome = "returned"
    /\ \E j \in DOMAIN inv.given_docs :
          /\ IsPod(inv.given_docs[j])
          /\ Shape(Segment(ops, j)) =
                << <<"read", "ok">>, <<"delete", "ok">>, <<"read", "404">>, <<"create", "ok">> >>

TimeoutError == PyStr("Failed to apply given manifest: Pod p1 not deleted after waiting")

\* C7: after the delete the Pod is read at most 30 times; when the 30th read
\* still finds the old Pod the invocation ends there: it returns with
\* status.ready = false and the error, creates no Pod, makes no further call.
C7_BoundedPoll ==
    [][PollPod =>
        LET id == IdOf(GivenManifest(frame.given_docs, frame.index))
        IN  /\ frame.polls + 1 <= 30
            /\ (frame.polls + 1 = 30 /\ Exists(cluster, id) /\ ~apiDown) =>
                  /\ pc' = "idle"
                  /\ inv'.outcome = "returned"
                  /\ inv'.source = "not run"
                  /\ status'.ready = PyBool(FALSE)
                  /\ status'.error = TimeoutError
                  /\ cluster' = cluster
                  /\ ops' = ops
                  /\ phase' = "active"
            /\ status'.error = TimeoutError =>
                  /\ frame.polls + 1 = 30
                  /\ Exists(cluster, id)
      ]_vars

\* create_lab ended on the timeout of the wait, the old Pod still there
C7_Witness ==
    /\ inv.handler = "create_lab"
    /\ inv.outcome = "returned"
    /\ status.error = TimeoutError
    /\ status.ready = PyBool(FALSE)
    /\ Exists(cluster, ResourceId(PyStr("Pod"), PyStr("p1")))

\* the apply of a descriptor succeeded: its last call is a create that was
\* answered ok, or the read of a Pod that matches
Succeeded(seg) == seg # <<>> /\ seg[Len(seg)].result = "ok" /\ seg[Len(seg)].op # "delete"

\* C8: create_lab applies the given descriptors in document order, a
\* descriptor only after all earlier ones succeeded; after a failed apply,
\* or with no given text, an unreadable givenFile or an unparseable text,
\* it returns with ready = false and an error without validating (no
\* resources written, no event) and, in the latter cases, without applying
\* anything; it validates exactly when every descriptor was applied.
C8_StopAtFirstFailure ==
    [][(HandlerEnds /\ inv'.handler = "create_lab") =>
        LET docs == inv'.given_docs
            applyOps == SelectSeq(ops', LAMBDA c : c.index > 0)
            fromFile == ~Truthy(labSpec.given) /\ Truthy(labSpec.givenFile)
            text == IF fromFile THEN FileText(labSpec.givenFile.s) ELSE labSpec.given
            noApply == \/ ~Truthy(labSpec.given) /\ ~Truthy(labSpec.givenFile)
                       \/ fromFile /\ labSpec.givenFile.s \notin files
                       \/ ~load_manifests(text).ok
            notValidated == /\ inv'.source = "not run"
                            /\ inv'.outcome = "returned"
                            /\ events' = <<>>
                            /\ DOMAIN patch'.status = {"ready", "error"}
                            /\ status'.ready = PyBool(FALSE)
                            /\ Truthy(status'.error)
                            /\ status'.resources = status.resources
            allApplied == \A j \in DOMAIN docs : Succeeded(Segment(ops', j))
        IN  /\ \A i, k \in DOMAIN applyOps : i < k => applyOps[i].index <= applyOps[k].index
            /\ \A i \in DOMAIN applyOps :
                  /\ applyOps[i].index \in DOMAIN docs
                  /\ applyOps[i].id = IdOf(docs[applyOps[i].index])
            /\ \A j \in DOMAIN docs : Segment(ops', j) # <<>> =>
                  \A h \in 1..(j - 1) : Succeeded(Segment(ops', h))
            /\ noApply => (applyOps = <<>> /\ notValidated)
            /\ ~noApply => docs = load_manifests(text).docs
            /\ ~allApplied => notValidated
            /\ (~noApply /\ allApplied) => inv'.source # "not run"
      ]_vars

\* create_lab failed on the first of two descriptors and left the second alone
C8_Witness ==
    /\ inv.handler = "create_lab"
    /\ inv.outcome = "returned"
    /\ inv.source = "not run"
    /\ Len(inv.given_docs) = 2
    /\ Segment(ops, 1) # <<>>
    /\ ~Succeeded(Segment(ops, 1))
    /\ Segment(ops, 2) = <<>>
    /\ status.ready = PyBool(FALSE)

Cm1 == ResourceId(PyStr("ConfigMap"), PyStr("cm1"))

\* C9: a create_lab on given = ConfigMap cm1 {k: v} and inline expected =
\* ConfigMap cm1 {k: v} without namespace, whose apply created cm1, returns
\* with status.ready = true and status.resources = one entry, ConfigMap cm1,
\* Ready, error null.
C9_EndToEnd ==
    ( /\ inv.handler = "create_lab"
      /\ inv.outcome # "running"
      /\ inv.spec.given = PyStr(<< TokCm >>)
      /\ inv.spec.expected = PyStr(<< TokCm >>)
      /\ ~Truthy(inv.spec.expectedRef)
      /\ Segment(ops, 1) = << Call("create", Cm1, "ok", 1) >> ) =>
        /\ inv.outcome = "returned"
        /\ status.ready = PyBool(TRUE)
        /\ status.error = PyNone
        /\ status.resources =
              PyList(<< [kind |-> PyStr("ConfigMap"), name |-> PyStr("cm1"),
                         namespace |-> PyStr(LabNamespace), status |-> "Ready",
                         error |-> PyNone] >>)

C9_Witness ==
    /\ inv.handler = "create_lab"
    /\ inv.outcome = "returned"
    /\ inv.spec.given = PyStr(<< TokCm >>)
    /\ inv.spec.expected = PyStr(<< TokCm >>)
    /\ ~Truthy(inv.spec.expectedRef)
    /\ Segment(ops, 1) = << Call("create", Cm1, "ok", 1) >>
    /\ "namespace" \notin DOMAIN DocOf[TokCm].d["metadata"].d
    /\ status.ready = PyBool(TRUE)

\* the expected descriptors of a verdict and the live objects it is about
VerdictDocs(yaml) == IF Truthy(yaml) THEN load_manifests(yaml).docs ELSE <<>>
LiveOf(doc, entry, cl, down) ==
    get_live_resource(GetN(doc, "kind"), GetN(doc, "apiVersion"),
                      GetN(GetN(doc, "metadata"), "name"), entry.namespace, cl, down)
EntryOf(doc, entry) ==
    /\ entry.kind = GetN(doc, "kind")
    /\ entry.name = GetN(GetN(doc, "metadata"), "name")

\* C10 as stated: an entry of a verdict is Ready only if compare_resources
\* holds of its expected descriptor and the live object.
C10_ReadyOnlyIfCompared ==
    [][(HandlerEnds /\ inv'.verdict) =>
        \A i \in DOMAIN VerdictDocs(inv'.expected_yaml) :
          \A k \in DOMAIN status'.resources.l :
            LET doc == VerdictDocs(inv'.expected_yaml)[i]
                entry == status'.resources.l[k]
                live == LiveOf(doc, entry, cluster', apiDown)
            IN  (EntryOf(doc, entry) /\ entry.status = "Ready") =>
                    /\ ~live.raised
                    /\ compare_resources(doc, live.value)
      ]_vars

\* C10 as amended: an entry of a verdict is Ready only if the readiness
\* classifier says ready and either compare_resources holds or find_mismatches
\* finds nothing; with a mismatch found the entry is never Ready.
C10_ReadyOnlyIfNoMismatch ==
    [][(HandlerEnds /\ inv'.verdict) =>
        \A i \in DOMAIN VerdictDocs(inv'.expected_yaml) :
          \A k \in DOMAIN status'.resources.l :
            LET doc == VerdictDocs(inv'.expected_yaml)[i]
                entry == status'.resources.l[k]
            IN  (EntryOf(doc, entry) /\ entry.status = "Ready") =>
                  \E live \in {LiveOf(doc, entry, cluster', apiDown)} :
                    /\ ~live.raised
                    /\ \/ compare_resources(doc, live.value)
                       \/ find_mismatches(doc, live.value, <<>>) = <<>>
                    /\ is_resource_ready(GetN(doc, "kind"), live.value) = Returns(TRUE)
      ]_vars

\* a verdict with a Ready entry whose descriptor compare_resources rejects
C10_Witness ==
    /\ inv.verdict
    /\ status.resources # PyNone
    /\ \E i \in DOMAIN VerdictDocs(inv.expected_yaml) :
         \E k \in DOMAIN status.resources.l :
            LET doc == VerdictDocs(inv.expected_yaml)[i]
                entry == status.resources.l[k]
                live == LiveOf(doc, entry, cluster, apiDown)
            IN  /\ EntryOf(doc, entry)
                /\ entry.status = "Ready"
                /\ ~live.raised
                /\ ~compare_resources(doc, live.value)
                /\ find_mismatches(doc, live.value, <<>>) = <<>>

\* the entries of a status, and the descriptor's own namespace or the Lab's
Entries(st) == IF st.resources = PyNone THEN <<>> ELSE st.resources.l
NamespaceOf(doc) ==
    [namespace |-> Get(Get(doc, "metadata", EmptyDict), "namespace", PyStr(LabNamespace))]
Verdict == HandlerEnds /\ inv'.verdict

\* C11: for a fetched resource that compare_resources rejects: a non-empty
\* mismatch list makes the entry NotMatching with the list attached and the
\* verdict not ready; an empty one leaves the entry to is_resource_ready:
\* Ready when it says true, NotReady (and the verdict not ready) when false.
C11_ClassifiedByMismatches ==
    [][Verdict =>
        \A i \in DOMAIN VerdictDocs(inv'.expected_yaml) :
          \A k \in DOMAIN Entries(status') :
            LET doc == VerdictDocs(inv'.expected_yaml)[i]
                entry == Entries(status')[k]
                live == LiveOf(doc, entry, cluster', apiDown)
                mismatches == find_mismatches(doc, live.value, <<>>)
                ready == is_resource_ready(GetN(doc, "kind"), live.value)
            IN  (EntryOf(doc, entry) /\ ~live.raised
                    /\ ~compare_resources(doc, live.value)) =>
                  IF mismatches # <<>> THEN
                      /\ entry.status = "NotMatching"
                      /\ "mismatches" \in DOMAIN entry
                      /\ entry.mismatches = mismatches
                      /\ status'.ready = PyBool(FALSE)
                  ELSE
                      \/ entry.status = "Ready" /\ ready = Returns(TRUE)
                      \/ /\ entry.status = "NotReady"
                         /\ ready = Returns(FALSE)
                         /\ status'.ready = PyBool(FALSE)
      ]_vars

\* C12: a verdict has one entry per expected descriptor; the entry of a
\* descriptor whose fetch fails is NotFound when the failure is a 404 and
\* Error otherwise, with an error text, and the verdict is then not ready.
C12_FetchFailureRecorded ==
    [][Verdict =>
        LET docs == VerdictDocs(inv'.expected_yaml)
            entries == Entries(status')
        IN  /\ Len(entries) = Len(docs)
            /\ \A i \in DOMAIN docs :
                 LET live == LiveOf(docs[i], NamespaceOf(docs[i]), cluster', apiDown)
                 IN  live.raised =>
                       /\ \E k \in DOMAIN entries :
                            /\ EntryOf(docs[i], entries[k])
                            /\ entries[k].status =
                                 IF live.error = "ApiException(404)" THEN "NotFound" ELSE "Error"
                            /\ Truthy(entries[k].error)
                       /\ status'.ready = PyBool(FALSE)
                       /\ status'.error = NotFixedError
                       /\ status'.message = PyNone
      ]_vars

\* a verdict over two descriptors whose fetches both failed, one with a 404
C12_Witness ==
    /\ inv.verdict
    /\ Len(Entries(status)) = 2
    /\ \E k \in DOMAIN Entries(status) : Entries(status)[k].status = "NotFound"
    /\ \E k \in DOMAIN Entries(status) : Entries(status)[k].status = "Error"
    /\ status.ready = PyBool(FALSE)

\* C13: an expected descriptor of a kind outside the five whose resource
\* exists gets a Ready entry.
C13_OtherKindsReady ==
    [][Verdict =>
        \A i \in DOMAIN VerdictDocs(inv'.expected_yaml) :
          LET doc == VerdictDocs(inv'.expected_yaml)[i]
          IN  (GetN(doc, "kind") \notin SupportedKinds /\ Exists(cluster', IdOf(doc))) =>
                 \E k \in DOMAIN Entries(status') :
                    /\ EntryOf(doc, Entries(status')[k])
                    /\ Entries(status')[k].status = "Ready"
      ]_vars

AllReady(st) == \A k \in DOMAIN Entries(st) : Entries(st)[k].status = "Ready"

\* C14: a verdict sets status.ready to whether every expected descriptor has
\* a Ready entry (true for no descriptor at all); and whenever the persisted
\* status.ready is true, every entry of status.resources is Ready.
C14_ReadyIffAllReady ==
    [][ /\ Verdict =>
            /\ Len(Entries(status')) = Len(VerdictDocs(inv'.expected_yaml))
            /\ status'.ready = PyBool(AllReady(status'))
            /\ "ready" \in DOMAIN patch'.status
        /\ status'.ready = PyBool(TRUE) => (status'.resources # PyNone /\ AllReady(status'))
      ]_vars

\* a verdict that is not ready over one Ready entry and one that is not
C14_Witness ==
    /\ inv.verdict
    /\ status.ready = PyBool(FALSE)
    /\ Len(Entries(status)) = 2
    /\ \E k \in DOMAIN Entries(status) : Entries(status)[k].status = "Ready"
    /\ \E k \in DOMAIN Entries(status) : Entries(status)[k].status # "Ready"

\* C15: in the persisted status, ready = true goes with a message and no
\* error, and ready = false with an error and no message.
C15_MessageXorError ==
    /\ status.ready = PyBool(TRUE) => (Truthy(status.message) /\ status.error = PyNone)
    /\ status.ready = PyBool(FALSE) => (status.message = PyNone /\ Truthy(status.error))

\* the list a pass computes: the entries of the expected descriptors against
\* the cluster the pass saw, sorted by (kind, namespace, name)
Computed(yaml, cl, down) ==
    PyList(SortEntries([i \in DOMAIN VerdictDocs(yaml) |->
                           ResourceStatus(VerdictDocs(yaml)[i], cl, down).entry]))

\* C16: a verdict writes status.resources exactly when the computed sorted
\* list differs from the list stored at the start of the invocation, and
\* then writes that list; it always writes ready, message and error.
C16_ResourcesPatchedOnChange ==
    [][Verdict =>
        \E computed \in {Computed(inv'.expected_yaml, cluster', apiDown)} :
            /\ ("resources" \in DOMAIN patch'.status) <=> (computed # status.resources)
            /\ "resources" \in DOMAIN patch'.status => patch'.status.resources = computed
            /\ status'.resources = computed
            /\ \A k \in 1..(Len(computed.l) - 1) : ~KeyLess(computed.l[k + 1], computed.l[k])
            /\ {"ready", "message", "error"} \subseteq DOMAIN patch'.status
      ]_vars

\* a verdict over two entries that left status.resources alone
C16_Witness ==
    /\ inv.verdict
    /\ "resources" \notin DOMAIN patch.status
    /\ "ready" \in DOMAIN patch.status
    /\ Len(Entries(status)) = 2

\* the descriptors of the given text of a Lab, and of its expected text
GivenDocsOf(spec) ==
    IF Truthy(spec.given) THEN load_manifests(spec.given).docs
    ELSE IF Truthy(spec.givenFile) THEN load_manifests(FileText(spec.givenFile.s)).docs
    ELSE <<>>
ExpectedDocsOf(spec, sec) ==
    IF Truthy(spec.expectedRef) THEN
        IF sec # PyNone /\ Get(spec.expectedRef, "key", PyStr(SideKey)).s \in DOMAIN sec.d
        THEN load_manifests(PyStr(b64decode(
                 sec.d[Get(spec.expectedRef, "key", PyStr(SideKey)).s].s))).docs
        ELSE <<>>
    ELSE IF Truthy(spec.expected) THEN load_manifests(spec.expected).docs
    ELSE IF Truthy(spec.expectedFile) THEN load_manifests(FileText(spec.expectedFile.s)).docs
    ELSE <<>>
DeleteIssued(log, id) == \E i \in DOMAIN log : log[i].op = "delete" /\ log[i].id = id

\* C17: delete_lab on a Lab whose expectedRef names a side object that is
\* gone (the API server answering) returns without raising, having issued a
\* delete for every resource of given and the delete of the side object,
\* answered 404.
C17_TeardownWithoutSideObject ==
    [][(/\ inv'.handler = "delete_lab"
        /\ envSteps' = envSteps
        /\ DeleteLab
        /\ Truthy(labSpec.expectedRef) /\ secret = PyNone /\ ~apiDown) =>
        /\ inv'.outcome = "returned"
        /\ phase' = "deleted"
        /\ \A i \in DOMAIN GivenDocsOf(labSpec) :
              DeleteIssued(ops', IdOf(GivenDocsOf(labSpec)[i]))
        /\ \E i \in DOMAIN ops' : ops'[i] = Call("delete", SideId, "404", 0)
      ]_vars

\* gone, or a Pod on its way out
Gone(cl, term, id) == ~Exists(cl, id) \/ id \in term

\* C18: after a delete_lab that returned, for a Lab whose create_lab had
\* returned, no resource of the given text, no resource of the expected text
\* and no side object is left in the cluster.
C18_NothingLeft ==
    [][(DeleteLab /\ phase = "active" /\ inv'.outcome = "returned") =>
        /\ secret' = PyNone
        /\ \A i \in DOMAIN GivenDocsOf(labSpec) :
              Gone(cluster', terminating', IdOf(GivenDocsOf(labSpec)[i]))
        /\ \A i \in DOMAIN ExpectedDocsOf(labSpec, secret) :
              Gone(cluster', terminating', IdOf(ExpectedDocsOf(labSpec, secret)[i]))
      ]_vars

(***************************************************************************)
(* The pure functions of the module, called on drawn arguments.  They read *)
(* no Lab and no cluster: the rest of the state stays as constructed.      *)
(***************************************************************************)
NoLab == LabSpec(PyNone, PyNone, PyNone, PyNone, PyNone)
Detached ==
    /\ labSpec = NoLab
    /\ status = NoStatus
    /\ cluster = [id \in ResourceIds |-> PyNone]
    /\ terminating = {}
    /\ secret = PyNone
    /\ files = {}
    /\ apiDown = FALSE
    /\ phase = "new"
    /\ pc = "idle"
    /\ frame = NoFrame
    /\ inv = NoInvocation
    /\ events = <<>>
    /\ ops = <<>>
    /\ patch = NoPatch
    /\ envSteps = 0
ProgramState == << labSpec, status, cluster, terminating, secret, files, apiDown,
                   phase, pc, frame, inv, events, ops, patch, envSteps >>

SeqsUpTo(S, n) == UNION {[1..k -> S] : k \in 0..n}

\* is_subset(expected, live) on two lists
MaxSeqLen == 2
SubsetElements ==
    {PyStr("a"), PyStr("b"),
     PyDict([k |-> PyStr("a")]),
     PyDict([k |-> PyStr("a"), j |-> PyStr("b")])}
SubsetArgs ==
    {[fn |-> "is_subset", expected |-> PyList(e), live |-> PyList(l)] :
        e \in SeqsUpTo(SubsetElements, MaxSeqLen), l \in SeqsUpTo(SubsetElements, MaxSeqLen)}

InitSubset ==
    /\ Detached
    /\ fnArgs \in SubsetArgs
    /\ fnResult = PyNone

CallIsSubset ==
    /\ fnResult = PyNone
    /\ fnArgs.fn = "is_subset"
    /\ fnResult' = PyBool(is_subset(fnArgs.expected, fnArgs.live))
    /\ UNCHANGED << ProgramState, fnArgs >>

NextSubset == CallIsSubset

SpecSubset == InitSubset /\ [][NextSubset]_vars

\* is_resource_ready(kind, live) on the dicts validate_lab passes: the
\* camel-cased to_dict() of a model object carries every attribute of the
\* model, None where the API server sent nothing, so a container state has
\* the keys running, terminated and waiting at once; dicts with only the
\* keys that are set are drawn as well
MaxContainers == 2
\* a key the dict does not have
Absent == [t |-> "absent"]
WithKey(k, v) == IF v = Absent THEN EmptyMap ELSE (k :> v)
ContainerState(running, terminated, waiting) ==
    PyDict(WithKey("running", running) @@ WithKey("terminated", terminated)
           @@ WithKey("waiting", waiting))
Waiting(reason) == PyDict([reason |-> PyStr(reason)])
ContainerStates ==
    {Absent, EmptyDict,
     ContainerState(EmptyDict, Absent, Absent),
     ContainerState(Absent, EmptyDict, Absent),
     ContainerState(Absent, Absent, Waiting("CrashLoopBackOff")),
     ContainerState(Absent, Absent, Waiting("Error")),
     ContainerState(Absent, Absent, Waiting("ContainerCreating")),
     ContainerState(EmptyDict, PyNone, PyNone),
     ContainerState(PyNone, EmptyDict, PyNone),
     ContainerState(PyNone, PyNone, Waiting("CrashLoopBackOff")),
     ContainerState(PyNone, PyNone, Waiting("ContainerCreating"))}
ContainerStatusEntries ==
    {PyDict(WithKey("ready", r) @@ WithKey("state", st)) :
        r \in {Absent, PyBool(TRUE), PyBool(FALSE)}, st \in ContainerStates}
PodLives ==
    {EmptyDict}
    \cup {PyDict([status |-> PyDict(WithKey("phase", ph) @@ WithKey("containerStatuses", cs))]) :
            ph \in {Absent, PyStr("Pending"), PyStr("Running")},
            cs \in {Absent} \cup {PyList(l) : l \in SeqsUpTo(ContainerStatusEntries, MaxContainers)}}
PlainLives ==
    {EmptyDict}
    \cup {PyDict([status |-> PyDict(WithKey("phase", ph))]) :
            ph \in {Absent, PyNone, PyStr("Pending"), PyStr("Bound"), PyStr("Lost")}}
ReadyArgs ==
    {[fn |-> "is_resource_ready", kind |-> PyStr("Pod"), live |-> l] : l \in PodLives}
    \cup {[fn |-> "is_resource_ready", kind |-> PyStr(k), live |-> l] :
            k \in {"Service", "ConfigMap", "Secret", "PersistentVolumeClaim"}, l \in PlainLives}

InitReady ==
    /\ Detached
    /\ fnArgs \in ReadyArgs
    /\ fnResult = PyNone

CallIsResourceReady ==
    /\ fnResult = PyNone
    /\ fnArgs.fn = "is_resource_ready"
    /\ fnResult' = is_resource_ready(fnArgs.kind, fnArgs.live)
    /\ UNCHANGED << ProgramState, fnArgs >>

NextReady == CallIsResourceReady

SpecReady == InitReady /\ [][NextReady]_vars

\* the rearrangements of a sequence
Perms(s) ==
    {[i \in 1..Len(s) |-> s[p[i]]] :
        p \in {q \in [1..Len(s) -> 1..Len(s)] :
                 \A i, j \in 1..Len(s) : q[i] = q[j] => i = j}}

\* C19: is_subset(E, L) on two lists is true exactly when every element of E
\* is a subset, under is_subset, of some element of L; the answer is the same
\* for every rearrangement of L and of E, and equal elements of E may all
\* match one element of L.
C19_OrderIndependentContainment ==
    fnResult # PyNone =>
        LET E == fnArgs.expected.l
            L == fnArgs.live.l
        IN  /\ fnResult.b = (\A i \in DOMAIN E : \E j \in DOMAIN L : is_subset(E[i], L[j]))
            /\ \A P \in Perms(L) : is_subset(PyList(E), PyList(P)) = fnResult.b
            /\ \A P \in Perms(E) : is_subset(PyList(P), PyList(L)) = fnResult.b
            /\ (/\ Len(L) = 1
                /\ \A i \in DOMAIN E : is_subset(E[i], L[1])) => fnResult.b

\* two different elements against the same two in the other order: true
C19_Witness ==
    /\ fnResult = PyBool(TRUE)
    /\ Len(fnArgs.expected.l) = 2
    /\ fnArgs.expected.l[1] # fnArgs.expected.l[2]
    /\ fnArgs.live.l = << fnArgs.expected.l[2], fnArgs.expected.l[1] >>
    /\ ~is_subset(fnArgs.expected.l[1], fnArgs.expected.l[2])
    /\ ~is_subset(fnArgs.expected.l[2], fnArgs.expected.l[1])

\* readiness as stated: what a container status entry reports
WaitingFatal(cs) ==
    LET waiting == GetN(Get(cs, "state", EmptyDict), "waiting")
    IN  /\ waiting # PyNone
        /\ GetN(waiting, "reason") \in {PyStr("CrashLoopBackOff"), PyStr("Error")}
HasTerminated(cs) == GetN(Get(cs, "state", EmptyDict), "terminated") # PyNone
StatedReady(kind, live) ==
    LET st == Get(live, "status", EmptyDict)
        entries == Get(st, "containerStatuses", EmptyList).l
    IN  IF kind = PyStr("Pod") THEN
            /\ GetN(st, "phase") = PyStr("Running")
            /\ Len(entries) >= 1
            /\ \A i \in DOMAIN entries :
                  /\ GetN(entries[i], "ready") = PyBool(TRUE)
                  /\ ~WaitingFatal(entries[i])
                  /\ ~HasTerminated(entries[i])
        ELSE IF kind = PyStr("PersistentVolumeClaim") THEN GetN(st, "phase") = PyStr("Bound")
        ELSE TRUE

\* C20: is_resource_ready returns, and returns true exactly when: for a Pod,
\* the phase is Running, there is a container status entry, every entry is
\* ready, none waits with reason CrashLoopBackOff or Error and none has a
\* terminated state; for a PersistentVolumeClaim, the phase is Bound; for a
\* Service, a ConfigMap and a Secret, always.
C20_ReadyExactlyWhen ==
    fnResult # PyNone => fnResult = Returns(StatedReady(fnArgs.kind, fnArgs.live))

\* a step of validate_lab, run for an update event or a tick of the timer:
\* among the steps of Next that leave validate_lab as the last handler run,
\* those that are no step of the environment
ValidateStep ==
    /\ envSteps' = envSteps
    /\ inv'.handler = "validate_lab"
    /\ ~PodDeleted
    /\ ~PodStarted

\* C21: validate_lab, run for an update event or a tick, creates, replaces
\* and deletes no resource of the cluster: the cluster is as it was, no Pod
\* is on its way out, and every API write of the invocation is on the side
\* object, written only when the inline text is migrated.
C21_ValidateWritesNoResource ==
    [][ValidateStep =>
        /\ cluster' = cluster
        /\ terminating' = terminating
        /\ \A i \in DOMAIN ops' : ops'[i].id = SideId
        /\ secret' # secret => inv'.source = "expected"
        /\ files' = files
      ]_vars

\* validate_lab reached a verdict on a Lab one of whose given resources is
\* gone from the cluster, and made no API write
C21_Witness ==
    /\ inv.handler = "validate_lab"
    /\ inv.verdict
    /\ phase = "active"
    /\ ops = <<>>
    /\ \E i \in DOMAIN GivenDocsOf(labSpec) :
          ~Exists(cluster, IdOf(GivenDocsOf(labSpec)[i]))

\* a step of delete_lab
DeleteStep ==
    /\ inv'.handler = "delete_lab"
    /\ DeleteLab

\* C22: delete_lab deletes the side object last, and only when every delete
\* of a collected resource before it was answered ok or 404; when a resource
\* delete is answered otherwise, delete_lab raises there: no later manifest
\* gets a call, the side object gets none and stays as it was, and so does
\* the spec, for the next attempt to read the expected text through
\* expectedRef.
C22_SideObjectLast ==
    [][DeleteStep =>
        \E log \in {ops'} :
            /\ \A i \in 1..(Len(log) - 1) :
                  /\ log[i].result \in {"ok", "404"}
                  /\ log[i].index # 0
                  /\ log[i].index <= log[i + 1].index \/ log[i + 1].index = 0
            /\ \A id \in ResourceIds :
                  (cluster'[id] # cluster[id] \/ id \in terminating' \ terminating) =>
                      \E i \in DOMAIN log : log[i].id = id /\ log[i].result = "ok"
            /\ inv'.outcome = "returned" =>
                  /\ Len(log) >= 1
                  /\ log[Len(log)].id = SideId
                  /\ log[Len(log)].result \in {"ok", "404"}
                  /\ secret' = PyNone
            /\ inv'.outcome = "raised" =>
                  /\ Len(log) >= 1
                  /\ log[Len(log)].result = "500"
                  /\ secret' = secret
                  /\ labSpec' = labSpec
                  /\ phase' = "deleting"
                  /\ log[Len(log)].index # 0 =>
                        \A i \in DOMAIN log : log[i].id # SideId
      ]_vars

\* a teardown whose first delete succeeded and whose second was answered
\* 500: it raised and the side object is still there
C22_Witness ==
    /\ inv.handler = "delete_lab"
    /\ inv.outcome = "raised"
    /\ Len(ops) = 2
    /\ ops[1].result = "ok"
    /\ ops[2].result = "500"
    /\ ops[2].index = 2
    /\ secret # PyNone
    /\ Truthy(labSpec.expectedRef)

\* the expected text as validate_lab would resolve it in this state
ResolvedText ==
    LET source == ExpectedSource(labSpec)
    IN  IF source = "expected" THEN
            IF apiDown THEN Raises("ApiException(500)") ELSE Returns(labSpec.expected)
        ELSE IF source = "expectedRef" THEN
            get_expected_yaml_from_secret(GetN(labSpec.expectedRef, "secretName"),
                                          Get(labSpec.expectedRef, "key", PyStr(SideKey)),
                                          secret, apiDown)
        ELSE IF source = "expectedFile" /\ labSpec.expectedFile.s \in files THEN
            Returns(FileText(labSpec.expectedFile.s))
        ELSE Raises("unresolved")

\* the live state satisfies the expected state: the Lab is there, the
\* expected text resolves and parses to descriptors of the five kinds, and
\* each one's live resource is fetched, matches and is ready
Satisfied ==
    /\ phase \in {"new", "active"}
    /\ \E r \in {ResolvedText} :
        /\ ~r.raised
        /\ Truthy(r.value)
        /\ \E loaded \in {load_manifests(r.value)} :
          /\ loaded.ok
          /\ \A i \in DOMAIN loaded.docs :
            \E doc \in {loaded.docs[i]} :
              /\ IsDict(doc)
              /\ GetN(doc, "kind") \in SupportedKinds
              /\ \E live \in {get_live_resource(GetN(doc, "kind"), GetN(doc, "apiVersion"),
                                               GetN(Get(doc, "metadata", EmptyDict), "name"),
                                               NamespaceOf(doc).namespace, cluster, apiDown)} :
                    /\ ~live.raised
                    /\ compare_resources(doc, live.value)
                    /\ is_resource_ready(GetN(doc, "kind"), live.value) = Returns(TRUE)

\* C23: if from some point on the live state satisfies the expected state,
\* then with the timer ticking status.ready is eventually true for good; a
\* tick on a satisfied state makes status.ready true whatever the status
\* was, with one LabFixed event exactly when it was not true before and no
\* LabNotFixed.
C23_EventuallyReady ==
    /\ (<>[]Satisfied) => <>[](status.ready = PyBool(TRUE))
    /\ [][(ValidateStep /\ Satisfied) =>
            /\ status'.ready = PyBool(TRUE)
            /\ Count(events', "LabFixed") = IF status.ready = PyBool(TRUE) THEN 0 ELSE 1
            /\ Count(events', "LabNotFixed") = 0 ]_vars

\* a tick found the state satisfied after an earlier invocation had left
\* status.ready False, and reported the flip
C23_Witness ==
    /\ inv.handler = "validate_lab"
    /\ inv.status.ready = PyBool(FALSE)
    /\ status.ready = PyBool(TRUE)
    /\ events = << "LabFixed" >>
    /\ Satisfied

====
